---------------------------- MODULE Spec2Model ----------------------------
(***************************************************************************)
(* A model of geoipsed: the ip-extract address extractor (DFA candidates,  *)
(* backward start scan, boundary checks, strict validation), the provider  *)
(* template rendering, the providers and their registry, GeoIPSed::lookup  *)
(* with its thread-local cache, the decorate loop of run() and the exit    *)
(* status main gives.  Byte strings are TLA+ strings; At(s, i)             *)
(* is the byte at the 1-based position i, so the 0-based offset k of the   *)
(* source is position k + 1 here.  Offsets kept in the state (pos, start,  *)
(* end, last_pos) are the 0-based offsets of the source.                   *)
(***************************************************************************)
EXTENDS Integers, Sequences, FiniteSets, TLC

VARIABLES
    pbytes,      \* parse_ipv4_bytes: the argument `bytes`
    pgroups,     \* number of dot-separated groups pbytes was built from
    presult,     \* parse_ipv4_bytes: the returned Option<Ipv4Addr>
    builder,     \* ExtractorBuilder: its five include_* fields
    extractor,   \* the Extractor returned by build(), or NoExtractor
    built,       \* the latest build(): "none" before it, then "ok" or "err"
    haystack,    \* find_iter: the byte slice being searched
    input_start, \* find_iter: input.start() of the captured Input
    yielded,     \* the ranges the iterator has returned so far
    iter,        \* "none", "active", or "done" once next() returned None
    args,        \* run: the command-line arguments
    cache,       \* run: `cache`, for the literals of the modelled lines
    cache_other, \* run: number of entries of `cache` for other literals
    ip_cache,    \* GeoIPSed: IP_CACHE, for the literals of the modelled lines
    ip_cache_other, \* GeoIPSed: number of entries of IP_CACHE for other literals
    out,         \* run: the bytes written for the current line
    last_pos,    \* run: `last_pos`
    decos,       \* the decoration written for each match of the current line
    rstate,      \* run: "idle", "line", "eol", "panicked" or "exited"
    last_lookup, \* the latest decoration of the current line: how it was obtained
    emitted,     \* for each literal, the decorations written for it so far
    exit_code,   \* main: "none" while run() runs, then "success" or "failure"
    stderr,      \* main: the error it wrote to the standard error, or <<>>
    run_err,     \* run_main: the error it returned (a chain of causes), or <<>>
    registry,    \* a ProviderRegistry: its providers and its active_provider
    reply,       \* the latest call on the registry or on GeoIPSed: its result
    writer,      \* the BufWriter `out`: bytes buffered, bytes handed to stdout
    wrun,        \* run / run_justips as the user of `out`: mode, position, result
    tagged,      \* a Tagged: its text, its tags and its text_data
    wrote,       \* the latest Tagged::write: whether it returned, and the bytes
    tagrun,      \* tag and tag-files modes: the inputs read, the documents emitted
    tpl,         \* Template::compile: the format string
    compiled,    \* Template::compile: the returned Result<Template, TemplateError>
    rendered     \* render_with_map of the compiled template: None, or the text

pvars == <<pbytes, pgroups, presult>>

xvars == <<builder, extractor, built, haystack, input_start, yielded, iter>>

rvars == <<args, cache, cache_other, ip_cache, ip_cache_other, out, last_pos,
           decos, rstate, last_lookup, emitted, exit_code, stderr, run_err>>

gvars == <<registry, reply>>

tvars == <<writer, wrun, tagged, wrote, tagrun, tpl, compiled, rendered>>

vars == <<pbytes, pgroups, presult,
          builder, extractor, built, haystack, input_start, yielded, iter,
          args, cache, cache_other, ip_cache, ip_cache_other, out, last_pos,
          decos, rstate, last_lookup, emitted, exit_code, stderr, run_err,
          registry, reply, writer, wrun, tagged, wrote, tagrun,
          tpl, compiled, rendered>>

(***************************************************************************)
(* Bytes and byte classes                                                  *)
(***************************************************************************)
At(s, i) == SubSeq(s, i, i)

\* &s[a..b] with 0-based half-open offsets
Slice(s, a, b) == SubSeq(s, a + 1, b)

DigitChars == "0123456789"

DigitSet == {At(DigitChars, i) : i \in 1..10}

IsDigit(b) == b \in DigitSet

DigitVal(b) == (CHOOSE i \in 1..10 : At(DigitChars, i) = b) - 1

HexChars == "0123456789abcdefABCDEF"

HexSet == {At(HexChars, i) : i \in 1..22}

IsHexDigit(b) == b \in HexSet

IsIpCharOrPercent(b) == IsHexDigit(b) \/ b = "." \/ b = ":" \/ b = "%"

is_ip_char(b) == IsHexDigit(b) \/ b = "." \/ b = ":"

(***************************************************************************)
(* parse_ipv4_bytes                                                        *)
(***************************************************************************)
NoAddr == [ok |-> FALSE, octets |-> <<0, 0, 0, 0>>]

ParseStart ==
    [ok |-> TRUE, octets |-> <<0, 0, 0, 0>>, octet_idx |-> 0,
     current_val |-> 0, digits_in_octet |-> 0]

ParseFail == [ParseStart EXCEPT !.ok = FALSE]

\* ParseByte without the leading-zero rejection
LeadingZeroAllowedParseByte(st, b) ==
    IF ~st.ok THEN st
    ELSE IF b = "."
    THEN IF st.digits_in_octet = 0 \/ st.octet_idx = 3
         THEN ParseFail
         ELSE [st EXCEPT !.octets[st.octet_idx + 1] = st.current_val % 256,
                         !.octet_idx = st.octet_idx + 1,
                         !.current_val = 0,
                         !.digits_in_octet = 0]
    ELSE IF IsDigit(b)
    THEN LET v == (st.current_val * 10 + DigitVal(b)) % 65536
         IN  IF v > 255
             THEN ParseFail
             ELSE [st EXCEPT !.current_val = v,
                             !.digits_in_octet = st.digits_in_octet + 1]
    ELSE ParseFail

\* one iteration of `for &b in bytes`
ParseByte(st, b) ==
    IF ~st.ok THEN st
    ELSE IF b = "."
    THEN IF st.digits_in_octet = 0 \/ st.octet_idx = 3
         THEN ParseFail
         ELSE [st EXCEPT !.octets[st.octet_idx + 1] = st.current_val % 256,
                         !.octet_idx = st.octet_idx + 1,
                         !.current_val = 0,
                         !.digits_in_octet = 0]
    ELSE IF IsDigit(b)
    THEN IF st.digits_in_octet > 0 /\ st.current_val = 0
         THEN ParseFail
         ELSE LET v == (st.current_val * 10 + DigitVal(b)) % 65536
              IN  IF v > 255
                  THEN ParseFail
                  ELSE [st EXCEPT !.current_val = v,
                                  !.digits_in_octet = st.digits_in_octet + 1]
    ELSE ParseFail

RECURSIVE ParseLoop(_, _, _)
ParseLoop(bytes, i, st) ==
    IF i > Len(bytes) THEN st
    ELSE ParseLoop(bytes, i + 1, ParseByte(st, At(bytes, i)))

\* the checks after the loop, st being the state the loop ended in
ParseEnd(st) ==
    IF ~st.ok \/ st.octet_idx # 3 \/ st.digits_in_octet = 0
    THEN NoAddr
    ELSE [ok |-> TRUE, octets |-> [st.octets EXCEPT ![4] = st.current_val % 256]]

parse_ipv4_bytes(bytes) ==
    IF Len(bytes) < 7 \/ Len(bytes) > 15
    THEN NoAddr
    ELSE ParseEnd(ParseLoop(bytes, 1, ParseStart))

(***************************************************************************)
(* The compiled patterns of build.rs.  A pattern is matched as the         *)
(* leftmost-first automaton matches it: XxxEnds(h, p) is the sequence of   *)
(* offsets at which a match of Xxx that starts at offset p can end, in the *)
(* order of preference of the regex (earlier alternative first, greedy     *)
(* repetition first); the automaton reports the first one.                 *)
(***************************************************************************)
RECURSIVE Flatten(_)
Flatten(ss) == IF Len(ss) = 0 THEN <<>> ELSE Head(ss) \o Flatten(Tail(ss))

\* B tried from the ends of A from the i-th on
RECURSIVE ThenFrom(_, _, _)
ThenFrom(L, B(_), i) == IF i > Len(L) THEN <<>> ELSE B(L[i]) \o ThenFrom(L, B, i + 1)

\* A followed by B: B tried from every end of A, in A's order
Then(L, B(_)) == ThenFrom(L, B, 1)

Byte(h, p, C(_)) == IF p < Len(h) /\ C(At(h, p + 1)) THEN <<p + 1>> ELSE <<>>

Lit(h, p, c) == IF p < Len(h) /\ At(h, p + 1) = c THEN <<p + 1>> ELSE <<>>

DigitIn(b, lo, hi) == \E i \in lo..hi : At(DigitChars, i + 1) = b

IsSpace(b) == b \in {" ", "\t", "\n", "\r"}

\* 25[0-5]
Oct25(h, p) ==
    Then(Then(Lit(h, p, "2"), LAMBDA a : Lit(h, a, "5")),
         LAMBDA a : Byte(h, a, LAMBDA b : DigitIn(b, 0, 5)))

\* 2[0-4][0-9]
Oct2xx(h, p) ==
    Then(Then(Lit(h, p, "2"), LAMBDA a : Byte(h, a, LAMBDA b : DigitIn(b, 0, 4))),
         LAMBDA a : Byte(h, a, IsDigit))

\* [01]?[0-9][0-9]?
Oct1xx(h, p) ==
    Then(Then(Byte(h, p, LAMBDA b : DigitIn(b, 0, 1)) \o <<p>>,
              LAMBDA a : Byte(h, a, IsDigit)),
         LAMBDA a : Byte(h, a, IsDigit) \o <<a>>)

\* (?:25[0-5]|2[0-4][0-9]|[01]?[0-9][0-9]?)
V4OctetEnds(h, p) == Oct25(h, p) \o Oct2xx(h, p) \o Oct1xx(h, p)

V4OctetDotEnds(h, p) == Then(V4OctetEnds(h, p), LAMBDA a : Lit(h, a, "."))

\* (?:^|[^0-9A-Fa-f:.])
V4PrefixEnds(h, p) ==
    (IF p = 0 THEN <<0>> ELSE <<>>)
        \o Byte(h, p, LAMBDA b : ~(IsHexDigit(b) \/ b = ":" \/ b = "."))

\* IPV4_PATTERN
Ipv4PatternEnds(h, p) ==
    Then(Then(Then(Then(V4PrefixEnds(h, p),
                        LAMBDA a : V4OctetDotEnds(h, a)),
                   LAMBDA a : V4OctetDotEnds(h, a)),
              LAMBDA a : V4OctetDotEnds(h, a)),
         LAMBDA a : V4OctetEnds(h, a))

\* (?:[0-9a-fA-F]){1,4}, greedy
\* the number of hex digits at offset p, counted up to n
HexRun(h, p, n) ==
    Cardinality({k \in 1..n :
                    \A i \in 1..k : p + i <= Len(h) /\ IsHexDigit(At(h, p + i))})

\* the ends of a run of k digits from offset p, the longest first
RunEnds(p, k) == [i \in 1..k |-> p + k + 1 - i]

HexEnds(h, p) == RunEnds(p, HexRun(h, p, 4))

\* (?:[0-9a-fA-F]){1,4}:
HexColonEnds(h, p) == Then(HexEnds(h, p), LAMBDA a : Lit(h, a, ":"))

\* :(?:[0-9a-fA-F]){1,4}
ColonHexEnds(h, p) == Then(Lit(h, p, ":"), LAMBDA a : HexEnds(h, a))

\* (?:H:){m,n}, greedy
RECURSIVE HexColonRep(_, _, _, _)
HexColonRep(h, p, m, n) ==
    IF n = 0 THEN <<p>>
    ELSE Then(HexColonEnds(h, p), LAMBDA a : HexColonRep(h, a, m - 1, n - 1))
             \o (IF m <= 0 THEN <<p>> ELSE <<>>)

\* (?::H){m,n}, greedy
RECURSIVE ColonHexRep(_, _, _, _)
ColonHexRep(h, p, m, n) ==
    IF n = 0 THEN <<p>>
    ELSE Then(ColonHexEnds(h, p), LAMBDA a : ColonHexRep(h, a, m - 1, n - 1))
             \o (IF m <= 0 THEN <<p>> ELSE <<>>)

\* (?:25[0-5]|(?:2[0-4]|1{0,1}[0-9]){0,1}[0-9])
V6OctetEnds(h, p) ==
    Oct25(h, p)
        \o Then(Then(Lit(h, p, "2"), LAMBDA a : Byte(h, a, LAMBDA b : DigitIn(b, 0, 4)))
                    \o Then(Lit(h, p, "1") \o <<p>>, LAMBDA a : Byte(h, a, IsDigit))
                    \o <<p>>,
                LAMBDA a : Byte(h, a, IsDigit))

V6OctetDotEnds(h, p) == Then(V6OctetEnds(h, p), LAMBDA a : Lit(h, a, "."))

\* the dotted quad embedded in an IPv6 literal
EmbeddedV4Ends(h, p) ==
    Then(Then(Then(V6OctetDotEnds(h, p),
                   LAMBDA a : V6OctetDotEnds(h, a)),
              LAMBDA a : V6OctetDotEnds(h, a)),
         LAMBDA a : V6OctetEnds(h, a))

\* [^\s:] and the dotted quad
AnyThenV4Ends(h, p) ==
    Then(Byte(h, p, LAMBDA b : ~(IsSpace(b) \/ b = ":")),
         LAMBDA a : EmbeddedV4Ends(h, a))

RECURSIVE LitRep(_, _, _, _)
\* c{1,n}, greedy
LitRep(h, p, c, n) ==
    IF n = 0 THEN <<>>
    ELSE Then(Lit(h, p, c), LAMBDA a : LitRep(h, a, c, n - 1) \o <<a>>)

\* (?:ffff(?::0{1,4}){0,1}:){0,1}
FfffEnds(h, p) ==
    Then(Then(Then(Then(Then(Lit(h, p, "f"), LAMBDA a : Lit(h, a, "f")),
                        LAMBDA a : Lit(h, a, "f")),
                   LAMBDA a : Lit(h, a, "f")),
              LAMBDA a : Then(Lit(h, a, ":"), LAMBDA c : LitRep(h, c, "0", 4)) \o <<a>>),
         LAMBDA a : Lit(h, a, ":"))
        \o <<p>>

\* IPV6_PATTERN, its eleven alternatives in order
Ipv6Alt1(h, p) ==
    Then(Then(HexColonRep(h, p, 1, 4), LAMBDA a : Lit(h, a, ":")),
         LAMBDA a : AnyThenV4Ends(h, a))

Ipv6Alt2(h, p) ==
    Then(Then(Then(Lit(h, p, ":"), LAMBDA a : Lit(h, a, ":")),
              LAMBDA a : FfffEnds(h, a)),
         LAMBDA a : AnyThenV4Ends(h, a))

Ipv6Alt3(h, p) ==
    Then(Lit(h, p, ":"), LAMBDA a : ColonHexRep(h, a, 1, 7) \o Lit(h, a, ":"))

Ipv6Alt4(h, p) == Then(HexColonEnds(h, p), LAMBDA a : ColonHexRep(h, a, 1, 6))

\* (?:H:){1,k}(?::H){1,7-k}
Ipv6AltMid(h, p, k) ==
    Then(HexColonRep(h, p, 1, k), LAMBDA a : ColonHexRep(h, a, 1, 7 - k))

Ipv6Alt9(h, p) == Then(HexColonRep(h, p, 1, 6), LAMBDA a : ColonHexEnds(h, a))

Ipv6Alt10(h, p) == Then(HexColonRep(h, p, 1, 7), LAMBDA a : Lit(h, a, ":"))

Ipv6Alt11(h, p) == Then(HexColonRep(h, p, 7, 7), LAMBDA a : HexEnds(h, a))

Ipv6PatternEnds(h, p) ==
    IF p < Len(h) /\ At(h, p + 1) = ":"
    THEN \* only the alternatives that begin with ':'
         Ipv6Alt2(h, p) \o Ipv6Alt3(h, p)
    ELSE IF HexColonEnds(h, p) = <<>>
    THEN \* every other alternative begins with a hex group and ':'
         <<>>
    ELSE Ipv6Alt1(h, p) \o Ipv6Alt4(h, p)
             \o Ipv6AltMid(h, p, 2) \o Ipv6AltMid(h, p, 3) \o Ipv6AltMid(h, p, 4)
             \o Ipv6AltMid(h, p, 5) \o Ipv6Alt9(h, p) \o Ipv6Alt10(h, p)
             \o Ipv6Alt11(h, p)


(***************************************************************************)
(* str::parse::<IpAddr>() as validate_ipv6 uses it: the IPv6 text parser   *)
(* of the standard library (groups of one to four hex digits, one optional *)
(* "::" standing for at least one group, an optional trailing dotted quad  *)
(* with strict decimal octets).  A text that parses as IPv4 is not IPv6.   *)
(***************************************************************************)
HexVal(b) ==
    LET i == CHOOSE k \in 1..22 : At(HexChars, k) = b
    IN  IF i <= 16 THEN i - 1 ELSE i - 7

RECURSIVE HexRunLen(_, _)
\* number of consecutive hex digits from offset p
HexRunLen(h, p) ==
    IF p < Len(h) /\ IsHexDigit(At(h, p + 1)) THEN 1 + HexRunLen(h, p + 1) ELSE 0

RECURSIVE DigitRunLen(_, _)
\* number of consecutive decimal digits from offset p
DigitRunLen(h, p) ==
    IF p < Len(h) /\ IsDigit(At(h, p + 1)) THEN 1 + DigitRunLen(h, p + 1) ELSE 0

RECURSIVE HexValue(_)
HexValue(g) ==
    IF g = "" THEN 0
    ELSE 16 * HexValue(SubSeq(g, 1, Len(g) - 1)) + HexVal(At(g, Len(g)))

RECURSIVE DecimalValue(_)
DecimalValue(g) ==
    IF g = "" THEN 0
    ELSE 10 * DecimalValue(SubSeq(g, 1, Len(g) - 1)) + DigitVal(At(g, Len(g)))

\* read_number(16, Some(4), true), n hex digits being at offset p
HexGroupOf(h, p, n) ==
    IF n = 0 \/ n > 4
    THEN [ok |-> FALSE, pos |-> p, val |-> 0]
    ELSE [ok |-> TRUE, pos |-> p + n, val |-> HexValue(Slice(h, p, p + n))]

ReadHexGroup(h, p) == HexGroupOf(h, p, HexRunLen(h, p))

\* read_number(10, Some(3), false) into a u8, n digits being at offset p
DecOctetOf(h, p, n) ==
    IF n = 0 \/ n > 3 \/ (n > 1 /\ At(h, p + 1) = "0")
       \/ DecimalValue(Slice(h, p, p + n)) > 255
    THEN [ok |-> FALSE, pos |-> p, val |-> 0]
    ELSE [ok |-> TRUE, pos |-> p + n, val |-> DecimalValue(Slice(h, p, p + n))]

ReadDecOctet(h, p) == DecOctetOf(h, p, DigitRunLen(h, p))

RECURSIVE ReadV4Octets(_, _, _, _)
\* one octet of read_ipv4_addr, given the number o read at its place
ReadV4Octet(h, p, i, acc, o) ==
    IF o.ok
    THEN ReadV4Octets(h, o.pos, i + 1, Append(acc, o.val))
    ELSE [ok |-> FALSE, pos |-> p, octets |-> acc]

\* read_ipv4_addr: four octets separated by '.'
ReadV4Octets(h, p, i, acc) ==
    IF i = 4 THEN [ok |-> TRUE, pos |-> p, octets |-> acc]
    ELSE IF i > 0 /\ ~(p < Len(h) /\ At(h, p + 1) = ".")
    THEN [ok |-> FALSE, pos |-> p, octets |-> acc]
    ELSE ReadV4Octet(h, p, i, acc, ReadDecOctet(h, IF i > 0 THEN p + 1 ELSE p))

RECURSIVE ReadGroups(_, _, _, _, _)
\* one slot of read_groups, given the embedded IPv4 address v4 and the hex
\* group g read after the separator
ReadGroup(h, p, i, limit, acc, sep, v4, g) ==
    IF i < limit - 1 /\ sep /\ v4.ok
    THEN [n |-> i + 2, v4 |-> TRUE, pos |-> v4.pos,
          groups |-> acc \o <<v4.octets[1] * 256 + v4.octets[2],
                              v4.octets[3] * 256 + v4.octets[4]>>]
    ELSE IF sep /\ g.ok
    THEN ReadGroups(h, g.pos, i + 1, limit, Append(acc, g.val))
    ELSE [n |-> i, v4 |-> FALSE, pos |-> p, groups |-> acc]

\* read_groups: up to `limit` colon-separated groups from offset p
ReadGroups(h, p, i, limit, acc) ==
    IF i >= limit
    THEN [n |-> i, v4 |-> FALSE, pos |-> p, groups |-> acc]
    ELSE ReadGroup(h, p, i, limit, acc,
                   i = 0 \/ (p < Len(h) /\ At(h, p + 1) = ":"),
                   ReadV4Octets(h, IF i = 0 THEN p ELSE p + 1, 0, <<>>),
                   ReadHexGroup(h, IF i = 0 THEN p ELSE p + 1))

NoAddr6 == [ok |-> FALSE, segments |-> <<0, 0, 0, 0, 0, 0, 0, 0>>]

\* read_ipv6_addr after the "::": the back part, and the whole text consumed
ReadTail(s, head, tail) ==
    IF tail.pos = Len(s)
    THEN [ok |-> TRUE,
          segments |->
              head.groups \o [k \in 1..(8 - head.n - tail.n) |-> 0] \o tail.groups]
    ELSE NoAddr6

\* read_ipv6_addr once the front part is read
ReadAfterHead(s, head) ==
    IF head.n = 8
    THEN IF head.pos = Len(s)
         THEN [ok |-> TRUE, segments |-> head.groups]
         ELSE NoAddr6
    ELSE IF head.v4 \/ ~(head.pos + 2 <= Len(s)
                         /\ Slice(s, head.pos, head.pos + 2) = "::")
    THEN NoAddr6
    ELSE ReadTail(s, head,
                  ReadGroups(s, head.pos + 2, 0, 8 - (head.n + 1), <<>>))

\* read_ipv6_addr, and the whole text consumed
ParseIpv6(s) == ReadAfterHead(s, ReadGroups(s, 0, 0, 8, <<>>))

(***************************************************************************)
(* The validators                                                          *)
(***************************************************************************)
\* Ipv4Addr::is_private, is_loopback, is_broadcast, is_link_local
Ipv4IsPrivate(o) ==
    \/ o[1] = 10
    \/ (o[1] = 172 /\ o[2] >= 16 /\ o[2] <= 31)
    \/ (o[1] = 192 /\ o[2] = 168)

Ipv4IsLoopback(o) == o[1] = 127

Ipv4IsBroadcast(o) == o = <<255, 255, 255, 255>>

Ipv4IsLinkLocal(o) == o[1] = 169 /\ o[2] = 254

\* the filters of validate_ipv4 with the private filter never applied
Ipv4FiltersNoPrivate(ipv4, include_private, include_loopback, include_broadcast) ==
    IF ~ipv4.ok THEN FALSE
    ELSE IF ~include_loopback /\ Ipv4IsLoopback(ipv4.octets) THEN FALSE
    ELSE IF ~include_broadcast
            /\ (Ipv4IsBroadcast(ipv4.octets) \/ Ipv4IsLinkLocal(ipv4.octets))
    THEN FALSE
    ELSE TRUE

\* validate_ipv4 once the bytes are parsed: ipv4 is the Option<Ipv4Addr>
Ipv4Filters(ipv4, include_private, include_loopback, include_broadcast) ==
    IF ~ipv4.ok THEN FALSE
    ELSE IF ~include_private /\ Ipv4IsPrivate(ipv4.octets) THEN FALSE
    ELSE IF ~include_loopback /\ Ipv4IsLoopback(ipv4.octets) THEN FALSE
    ELSE IF ~include_broadcast
            /\ (Ipv4IsBroadcast(ipv4.octets) \/ Ipv4IsLinkLocal(ipv4.octets))
    THEN FALSE
    ELSE TRUE

validate_ipv4(bytes, include_private, include_loopback, include_broadcast) ==
    Ipv4Filters(parse_ipv4_bytes(bytes),
                include_private, include_loopback, include_broadcast)

\* matches!(ip.octets()[0], 0xfc | 0xfd)
is_unique_local(seg) == (seg[1] \div 256) \in {252, 253}

\* Ipv6Addr::is_unicast_link_local: (segments[0] & 0xffc0) == 0xfe80
Ipv6IsUnicastLinkLocal(seg) == (seg[1] \div 64) * 64 = 65152

\* Ipv6Addr::is_loopback
Ipv6IsLoopback(seg) == seg = <<0, 0, 0, 0, 0, 0, 0, 1>>

\* validate_ipv6 once the text is parsed: ip is the parse result
Ipv6Filters(ip, include_private, include_loopback) ==
    IF ~ip.ok THEN FALSE
    ELSE IF ~include_private
            /\ (Ipv6IsUnicastLinkLocal(ip.segments) \/ is_unique_local(ip.segments))
    THEN FALSE
    ELSE IF ~include_loopback /\ Ipv6IsLoopback(ip.segments) THEN FALSE
    ELSE TRUE

validate_ipv6(bytes, include_private, include_loopback) ==
    IF Len(bytes) < 2 THEN FALSE
    ELSE Ipv6Filters(ParseIpv6(bytes), include_private, include_loopback)

\* a validator that accepts every candidate
ValidateAcceptsAll(v, bytes) == TRUE

\* ValidatorType::validate
Validate(v, bytes) ==
    IF v.kind = "IPv4"
    THEN validate_ipv4(bytes, v.include_private, v.include_loopback, v.include_broadcast)
    ELSE validate_ipv6(bytes, v.include_private, v.include_loopback)


(***************************************************************************)
(* The compiled automata and Extractor::find_iter                          *)
(***************************************************************************)
\* build.rs main: the patterns of each automaton, in pattern-id order
DfaPatterns(dfa) ==
    IF dfa = "both" THEN <<"IPv4", "IPv6">>
    ELSE IF dfa = "ipv4_only" THEN <<"IPv4">>
    ELSE <<"IPv6">>

PatternEnds(kind, h, p) ==
    IF kind = "IPv4" THEN Ipv4PatternEnds(h, p) ELSE Ipv6PatternEnds(h, p)

NoMatch == [found |-> FALSE, offset |-> 0, pattern |-> 0]

RECURSIVE MatchAt(_, _, _, _)
\* the match of pattern k at start offset p, e being its ends in order of
\* preference, or else that of the next pattern
MatchOf(pats, h, p, k, e) ==
    IF e # <<>>
    THEN [found |-> TRUE, offset |-> e[1], pattern |-> k - 1]
    ELSE MatchAt(pats, h, p, k + 1)

\* leftmost-first among the patterns at one start offset: the lowest
\* pattern id that matches, at its preferred end
MatchAt(pats, h, p, k) ==
    IF k > Len(pats) THEN NoMatch
    ELSE MatchOf(pats, h, p, k, PatternEnds(pats[k], h, p))

RECURSIVE try_search_fwd(_, _, _)
\* the unanchored forward search from input.start: the leftmost start wins
try_search_fwd(dfa, h, p) ==
    CASE p > Len(h) -> NoMatch
      [] p <= Len(h) /\ MatchAt(DfaPatterns(dfa), h, p, 1).found ->
            MatchAt(DfaPatterns(dfa), h, p, 1)
      [] OTHER -> try_search_fwd(dfa, h, p + 1)

\* the cap of the backward scan
LookBack == 40

\* the backward walk from end to the start of the run of address
\* characters, at most LookBack bytes
ScanStart(h, end) ==
    LET floor == IF end >= LookBack THEN end - LookBack ELSE 0
        c == {i \in floor..(end - 1) : i = 0 \/ ~is_ip_char(At(h, i))}
    IN  IF c # {} THEN CHOOSE i \in c : \A j \in c : j <= i ELSE floor

NoRightBoundary(kind, h, end) == TRUE

valid_right_boundary(kind, h, end) ==
    IF end < Len(h)
    THEN LET next == At(h, end + 1)
         IN  IF kind = "IPv4"
             THEN ~(IsDigit(next)
                    \/ (next = "." /\ end + 1 < Len(h) /\ IsDigit(At(h, end + 2))))
             ELSE ~is_ip_char(next)
    ELSE TRUE

\* a search position left on the last byte of the candidate
SetStartBeforeEnd(end) == end - 1

\* input.set_start(end)
SetStart(end) == end

RECURSIVE FindNext(_, _, _)
\* one candidate: the automaton reported `end` and the pattern of
\* `validator`; `start` is where the backward scan stopped
Candidate(ex, h, end, validator, start) ==
    IF valid_right_boundary(validator.kind, h, end)
       /\ Validate(validator, Slice(h, start, end))
    THEN [some |-> TRUE, start |-> start, end |-> end,
          kind |-> validator.kind, input_start |-> SetStart(end)]
    ELSE FindNext(ex, h, SetStart(end))

\* one turn of the closure's loop, m being the result of the search
LoopTurn(ex, h, pos, m) ==
    IF ~m.found
    THEN [some |-> FALSE, start |-> 0, end |-> 0, kind |-> "", input_start |-> pos]
    ELSE Candidate(ex, h, m.offset, ex.validators[m.pattern + 1],
                   ScanStart(h, m.offset))

\* one call of the iterator's closure: candidates are taken until one is
\* yielded or the search finds nothing more
FindNext(ex, h, pos) == LoopTurn(ex, h, pos, try_search_fwd(ex.dfa, h, pos))

(***************************************************************************)
(* ExtractorBuilder                                                        *)
(***************************************************************************)
\* ExtractorBuilder::new
NewBuilder ==
    [include_ipv4 |-> TRUE, include_ipv6 |-> TRUE, include_private |-> TRUE,
     include_loopback |-> TRUE, include_broadcast |-> TRUE]

IPv4Validator(b) ==
    [kind |-> "IPv4", include_private |-> b.include_private,
     include_loopback |-> b.include_loopback,
     include_broadcast |-> b.include_broadcast]

IPv6Validator(b) ==
    [kind |-> "IPv6", include_private |-> b.include_private,
     include_loopback |-> b.include_loopback,
     include_broadcast |-> FALSE]

NoExtractor == [ok |-> FALSE, dfa |-> "", validators |-> <<>>]

BuildBothAlways(b) ==
    [ok |-> TRUE, dfa |-> "both", validators |-> <<IPv4Validator(b), IPv6Validator(b)>>]

\* ExtractorBuilder::build
Build(b) ==
    IF b.include_ipv4 /\ b.include_ipv6
    THEN [ok |-> TRUE, dfa |-> "both", validators |-> <<IPv4Validator(b), IPv6Validator(b)>>]
    ELSE IF b.include_ipv4
    THEN [ok |-> TRUE, dfa |-> "ipv4_only", validators |-> <<IPv4Validator(b)>>]
    ELSE IF b.include_ipv6
    THEN [ok |-> TRUE, dfa |-> "ipv6_only", validators |-> <<IPv6Validator(b)>>]
    ELSE NoExtractor

\* Ok(Extractor) or the error "No IP address patterns selected"
BuildResult(ex) == IF ex.ok THEN "ok" ELSE "err"

(***************************************************************************)
(* The MaxMind provider and the user's template                            *)
(***************************************************************************)
RECURSIVE Replace(_, _, _)
\* str::replace(from, to): the non-overlapping occurrences of `from`, left
\* to right, each replaced by `to`; the text put in is not searched again
Replace(s, from, to) ==
    IF Len(s) < Len(from) THEN s
    ELSE IF SubSeq(s, 1, Len(from)) = from
    THEN to \o Replace(SubSeq(s, Len(from) + 1, Len(s)), from, to)
    ELSE At(s, 1) \o Replace(SubSeq(s, 2, Len(s)), from, to)

\* s.parse::<IpAddr>(): the whole text is an IPv4 or an IPv6 address
IsIpv4Text(s, r) == r.ok /\ r.pos = Len(s)

ParsesAsIp(s) == IsIpv4Text(s, ReadV4Octets(s, 0, 0, <<>>)) \/ ParseIpv6(s).ok

\* The keys of the `values` map that the modelled templates and records
\* use.  The other six keys (continent, country_iso, country_full,
\* latitude, longitude, timezone) keep their defaults here, and no modelled
\* template or value holds their placeholders, so their turns of the loop
\* in apply_template leave the text as it is.
FieldKeys == {"ip", "asnnum", "asnorg", "city"}

\* the orders in which a HashMap may hand out its keys
KeyOrders ==
    {o \in [1..Cardinality(FieldKeys) -> FieldKeys] :
        \A i, j \in DOMAIN o : i # j => o[i] # o[j]}

\* the ASN database: asn_reader.lookup::<geoip2::Asn>(ip); an Option is a
\* sequence of at most one element
AsnRecord(ip) ==
    CASE ip = "1.2.3.4" -> [found |-> TRUE, number |-> <<"64500">>, org |-> <<"{ip}">>]
      [] OTHER -> [found |-> FALSE, number |-> <<>>, org |-> <<>>]

\* the City database: the English city name of city_reader.lookup, if any
CityName(ip) ==
    CASE ip = "1.2.3.4" -> <<"Jersey City">>
      [] OTHER -> <<>>

OrDefault(opt, default) == IF opt = <<>> THEN default ELSE opt[1]

\* MaxMindProvider::lookup: the `values` map before the template is applied
ProviderValues(ip) ==
    [k \in FieldKeys |->
        CASE k = "ip" -> ip
          [] k = "asnnum" -> OrDefault(AsnRecord(ip).number, "0")
          [] k = "asnorg" -> OrDefault(AsnRecord(ip).org, "")
          [] k = "city" -> OrDefault(CityName(ip), "")]

\* format!("{{{}}}", key)
Placeholder(key) == "{" \o key \o "}"

RECURSIVE ApplyKeys(_, _, _, _)
\* the loop of apply_template, the map handing out its keys in `order`
ApplyKeys(result, values, order, i) ==
    IF i > Len(order) THEN result
    ELSE ApplyKeys(Replace(result, Placeholder(order[i]), values[order[i]]),
                   values, order, i + 1)

apply_template(template, values, order) == ApplyKeys(template, values, order, 1)

SpacesKept(text) == text

\* result.replace(' ', "_")
SpacesReplaced(text) == Replace(text, " ", "_")

\* MaxMindProvider::lookup of an initialized provider, ip parsing
MaxMindLookup(ip, template, order) ==
    SpacesReplaced(apply_template(template, ProviderValues(ip), order))

HasAsnAlways(ip) == TRUE

\* MaxMindProvider::has_asn through ProviderRegistry::has_asn
has_asn(ip) ==
    ParsesAsIp(ip) /\ AsnRecord(ip).found /\ AsnRecord(ip).number # <<>>

NoCache == [k \in {} |-> ""]

NoInsert(c, k, v) == c

\* HashMap::insert
Insert(c, k, v) == [x \in DOMAIN c \cup {k} |-> IF x = k THEN v ELSE c[x]]

(***************************************************************************)
(* The providers, the directories they are initialized from, and the       *)
(* registry                                                                *)
(***************************************************************************)
\* Option<Reader<Mmap>>: None, or Some(reader), the reader named by the path
\* of the file it maps
None == ""

RECURSIVE Contains(_, _)
\* str::contains
Contains(s, sub) ==
    IF Len(s) < Len(sub) THEN FALSE
    ELSE IF SubSeq(s, 1, Len(sub)) = sub THEN TRUE
    ELSE Contains(SubSeq(s, 2, Len(s)), sub)

\* the directories given as `path`
Dirs == {"/db/full", "/db/half", "/db/split", "/db/none", "/db/other", "/db/mock"}

\* what a directory holds under a file name: no such file ("absent"), a
\* database Reader::open_mmap opens ("usable"), or a file it rejects
\* ("corrupt")
FileState(dir, file) ==
    CASE dir = "/db/full"
            /\ file \in {"GeoLite2-ASN.mmdb", "GeoLite2-City.mmdb"} -> "usable"
      [] dir = "/db/half" /\ file = "GeoLite2-ASN.mmdb" -> "usable"
      [] dir = "/db/half" /\ file = "GeoLite2-City.mmdb" -> "corrupt"
      [] dir = "/db/split"
            /\ file \in {"GeoLite2-ASN-IPv4.mmdb", "GeoLite2-City-IPv6.mmdb"} -> "usable"
      [] dir = "/db/other"
            /\ file \in {"IP2LOCATION-LITE-DB11.MMDB", "ip_country_asn.mmdb"} -> "usable"
      [] OTHER -> "absent"

\* path.join(file)
Join(dir, file) == dir \o "/" \o file

\* Path::exists
Exists(dir, file) == FileState(dir, file) # "absent"

\* MaxMindProvider::default, IP2LocationProvider::default and
\* IPinfoProvider::default: the fields of the three structs in one record,
\* a provider keeping None in the fields its struct does not have
DefaultProvider(kind) ==
    [kind |-> kind, initialized |-> FALSE, asn_reader |-> None,
     city_reader |-> None, ipv4_reader |-> None, ipv6_reader |-> None,
     db_reader |-> None]

ProviderKinds == {"maxmind", "ip2location", "ipinfo"}

\* required_files()
required_files(kind) ==
    CASE kind = "maxmind" ->
            {"GeoLite2-ASN.mmdb", "GeoLite2-City.mmdb",
             "GeoLite2-ASN-IPv4.mmdb", "GeoLite2-ASN-IPv6.mmdb",
             "GeoLite2-City-IPv4.mmdb", "GeoLite2-City-IPv6.mmdb"}
      [] kind = "ip2location" -> {"IP2LOCATION-LITE-DB11.MMDB"}
      [] kind = "ipinfo" -> {"ip_country_asn.mmdb"}

\* MmdbProvider::check_files: TRUE for Ok(())
check_files(kind, path) ==
    \/ \E file \in required_files(kind) : Exists(path, file)
    \/ Contains(path, "tests/maxmind")
    \/ Contains(path, "test")
    \/ Contains(path, "mock")

\* the opens of MaxMindProvider::initialize in their order: the file, the
\* field that takes the reader, and the field that must be None for the
\* open to be tried ("" when it is always tried)
MaxMindOpens ==
    <<[file |-> "GeoLite2-ASN.mmdb", field |-> "asn_reader", unless |-> ""],
      [file |-> "GeoLite2-City.mmdb", field |-> "city_reader", unless |-> ""],
      [file |-> "GeoLite2-ASN-IPv4.mmdb", field |-> "ipv4_reader", unless |-> "asn_reader"],
      [file |-> "GeoLite2-ASN-IPv6.mmdb", field |-> "ipv6_reader", unless |-> "asn_reader"],
      [file |-> "GeoLite2-City-IPv4.mmdb", field |-> "ipv4_reader", unless |-> "city_reader"],
      [file |-> "GeoLite2-City-IPv6.mmdb", field |-> "ipv6_reader", unless |-> "city_reader"]>>

\* one `if path.exists() { self.field = Some(Reader::open_mmap(..)?) }`:
\* st is the provider so far, the files opened so far, and whether a `?`
\* has returned
OpenInto(st, path, o) ==
    IF st.failed \/ (o.unless # "" /\ st.p[o.unless] # None) \/ ~Exists(path, o.file)
    THEN st
    ELSE IF FileState(path, o.file) = "usable"
    THEN [st EXCEPT !.p[o.field] = Join(path, o.file),
                    !.opened = @ \cup {o.file}]
    ELSE [st EXCEPT !.failed = TRUE]

RECURSIVE OpenAll(_, _, _, _)
OpenAll(st, path, opens, i) ==
    IF i > Len(opens) THEN st
    ELSE OpenAll(OpenInto(st, path, opens[i]), path, opens, i + 1)

\* the end of MaxMindProvider::initialize: the error of a failed open, the
\* bail when all four readers are None, or initialized = true and Ok(())
MaxMindInitialized(st) ==
    IF st.failed
    THEN [ok |-> FALSE, p |-> st.p, opened |-> st.opened]
    ELSE IF st.p.asn_reader = None /\ st.p.city_reader = None
            /\ st.p.ipv4_reader = None /\ st.p.ipv6_reader = None
    THEN [ok |-> FALSE, p |-> st.p, opened |-> st.opened]
    ELSE [ok |-> TRUE, p |-> [st.p EXCEPT !.initialized = TRUE], opened |-> st.opened]

\* IP2LocationProvider::initialize and IPinfoProvider::initialize, which
\* open the one file `file`
SingleFileInitialize(p, path, file) ==
    IF ~check_files(p.kind, path)
    THEN [ok |-> FALSE, p |-> p, opened |-> {}]
    ELSE IF FileState(path, file) = "usable"
    THEN [ok |-> TRUE,
          p |-> [p EXCEPT !.db_reader = Join(path, file), !.initialized = TRUE],
          opened |-> {file}]
    ELSE [ok |-> FALSE, p |-> p, opened |-> {}]

\* initialize(&mut self, path) of the provider p: the Result, the provider
\* as the call leaves it, and the files the call opened
initialize(p, path) ==
    CASE p.kind = "maxmind" ->
            MaxMindInitialized(
                OpenAll([p |-> p, opened |-> {}, failed |-> FALSE], path, MaxMindOpens, 1))
      [] p.kind = "ip2location" ->
            SingleFileInitialize(p, path, "IP2LOCATION-LITE-DB11.MMDB")
      [] p.kind = "ipinfo" ->
            SingleFileInitialize(p, path, "ip_country_asn.mmdb")

\* reader.lookup::<geoip2::Asn>(ip): the ASN databases hold AsnRecord; a
\* City database has no ASN fields
ReaderAsn(reader, ip) ==
    IF Contains(reader, "ASN") THEN AsnRecord(ip)
    ELSE [found |-> FALSE, number |-> <<>>, org |-> <<>>]

\* the reader MaxMindProvider::lookup takes the ASN fields from, or None
AsnSource(p, ip) ==
    IF p.asn_reader # None THEN p.asn_reader
    ELSE IF IsIpv4Text(ip, ReadV4Octets(ip, 0, 0, <<>>)) THEN p.ipv4_reader
    ELSE p.ipv6_reader

\* MaxMindProvider::lookup: the `values` map of the provider p
MaxMindValues(p, ip) ==
    [k \in FieldKeys |->
        CASE k = "ip" -> ip
          [] k = "asnnum" ->
                IF AsnSource(p, ip) = None THEN "0"
                ELSE OrDefault(ReaderAsn(AsnSource(p, ip), ip).number, "0")
          [] k = "asnorg" ->
                IF AsnSource(p, ip) = None THEN ""
                ELSE OrDefault(ReaderAsn(AsnSource(p, ip), ip).org, "")
          [] k = "city" ->
                IF p.city_reader = None THEN "" ELSE OrDefault(CityName(ip), "")]

\* the IPinfo database: the "asn" of reader.lookup::<Value>(ip), if any
IpinfoAsn(ip) ==
    CASE ip = "1.2.3.4" -> <<"AS64500">>
      [] OTHER -> <<>>

\* the text apply_template (or, for IP2Location, the one replace) gives the
\* lookup of the provider p.  Of the `values` of IPinfoProvider::lookup
\* only "ip" is kept: the modelled templates hold no placeholder of its
\* other keys (country, country_name, asn, asn_name).
ProviderApplied(p, ip, template, order) ==
    CASE p.kind = "maxmind" -> apply_template(template, MaxMindValues(p, ip), order)
      [] p.kind = "ip2location" -> Replace(template, "{ip}", ip)
      [] p.kind = "ipinfo" -> Replace(template, Placeholder("ip"), ip)

\* lookup(&self, ip_str, template) of the provider p returns Ok
ProviderLookupOk(p, ip) ==
    p.kind = "ip2location" \/ (p.initialized /\ ParsesAsIp(ip))

\* lookup(&self, ip_str, template) of the provider p: Err(message) or
\* Ok(text)
ProviderLookup(p, ip, template, order) ==
    IF ProviderLookupOk(p, ip)
    THEN [ok |-> TRUE, text |-> SpacesReplaced(ProviderApplied(p, ip, template, order))]
    ELSE IF ~p.initialized
    THEN [ok |-> FALSE, text |-> "Provider not initialized"]
    ELSE [ok |-> FALSE, text |-> "Invalid IP address"]

\* has_asn(&self, ip_str) of the provider p
ProviderHasAsn(p, ip) ==
    CASE p.kind = "maxmind" -> p.initialized /\ p.asn_reader # None /\ has_asn(ip)
      [] p.kind = "ip2location" -> FALSE
      [] p.kind = "ipinfo" ->
            /\ p.initialized
            /\ ParsesAsIp(ip)
            /\ p.db_reader # None
            /\ IpinfoAsn(ip) # <<>>

\* ProviderRegistry::default: the three providers, "maxmind" active.  A
\* registry is the record of its two fields; an Option<String> is a
\* sequence of at most one element.
DefaultRegistry ==
    [providers |-> [n \in ProviderKinds |-> DefaultProvider(n)],
     active_provider |-> <<"maxmind">>]

\* get_active_provider() returns Ok
HasActive(reg) ==
    /\ reg.active_provider # <<>>
    /\ reg.active_provider[1] \in DOMAIN reg.providers

\* the provider get_active_provider() returns
ActiveProvider(reg) == reg.providers[reg.active_provider[1]]

\* ProviderRegistry::register
RegistryRegister(reg, name, p) ==
    [reg EXCEPT !.providers = Insert(reg.providers, name, p)]

\* a failing call that falls back to the provider of default()
SetActiveFallsBack(reg, name) ==
    IF name \in DOMAIN reg.providers
    THEN [ok |-> TRUE, reg |-> [reg EXCEPT !.active_provider = <<name>>]]
    ELSE [ok |-> FALSE, reg |-> [reg EXCEPT !.active_provider = <<"maxmind">>]]

SetActiveUnchecked(reg, name) ==
    [ok |-> TRUE, reg |-> [reg EXCEPT !.active_provider = <<name>>]]

\* ProviderRegistry::set_active_provider: the Result and the registry
set_active_provider(reg, name) ==
    IF name \in DOMAIN reg.providers
    THEN [ok |-> TRUE, reg |-> [reg EXCEPT !.active_provider = <<name>>]]
    ELSE [ok |-> FALSE, reg |-> reg]

\* the registry after provider.initialize(path) gave r
WithActive(reg, r) ==
    [ok |-> r.ok,
     reg |-> [reg EXCEPT !.providers[reg.active_provider[1]] = r.p],
     opened |-> r.opened]

\* ProviderRegistry::initialize_active_provider(Some(path))
initialize_active_provider(reg, path) ==
    IF ~HasActive(reg) THEN [ok |-> FALSE, reg |-> reg, opened |-> {}]
    ELSE WithActive(reg, initialize(ActiveProvider(reg), path))

\* ProviderRegistry::lookup
RegistryLookup(reg, ip, template, order) ==
    IF ~HasActive(reg) THEN [ok |-> FALSE, text |-> "No active provider set"]
    ELSE ProviderLookup(ActiveProvider(reg), ip, template, order)

\* ProviderRegistry::has_asn
RegistryHasAsn(reg, ip) == HasActive(reg) /\ ProviderHasAsn(ActiveProvider(reg), ip)

\* the registry run() hands to GeoIPSed::new_with_provider: the default one
\* with its active provider initialized from a directory holding both
\* GeoLite2 databases
RunRegistry == initialize_active_provider(DefaultRegistry, "/db/full").reg

(***************************************************************************)
(* GeoIPSed::lookup and its thread-local IP_CACHE                          *)
(***************************************************************************)
ReturnedUncached(s, ipc, result, how, raw) ==
    [result |-> result, ip_cache |-> ipc, how |-> how, raw |-> raw]

\* the result is put into IP_CACHE and returned
Cached(s, ipc, result, how, raw) ==
    [result |-> result, ip_cache |-> Insert(ipc, s, result), how |-> how, raw |-> raw]

\* registry.lookup(s, &self.template) returned Ok: `applied` is the text
\* apply_template gave MaxMindProvider::lookup
Rendered(s, ipc, applied) ==
    Cached(s, ipc, SpacesReplaced(applied), "rendered", applied)

\* offset of the first '}' after the first byte of t, or 0
FieldEnd(t) ==
    IF {j \in 2..Len(t) : At(t, j) = "}"} = {} THEN 0
    ELSE CHOOSE j \in 2..Len(t) :
            /\ At(t, j) = "}"
            /\ \A k \in 2..Len(t) : At(t, k) = "}" => j <= k

RECURSIVE render(_, _)
\* microtemplate::render(template, ipinfo) of the legacy path: one pass
\* over the template, "{name}" giving the field `name` of the IPInfo and
\* nothing for a name it does not have
render(t, v) ==
    IF t = "" THEN ""
    ELSE IF At(t, 1) = "{" /\ FieldEnd(t) > 0
    THEN (IF SubSeq(t, 2, FieldEnd(t) - 1) \in DOMAIN v
          THEN v[SubSeq(t, 2, FieldEnd(t) - 1)] ELSE "")
             \o render(SubSeq(t, FieldEnd(t) + 1, Len(t)), v)
    ELSE At(t, 1) \o render(SubSeq(t, 2, Len(t)), v)

\* the legacy path has rendered `text` from the template
LegacyRendered(s, ipc, text) ==
    Cached(s, ipc, SpacesReplaced(text), "legacy", text)

\* the legacy path of GeoIPSed::lookup, with the readers new_with_provider
\* opened from a directory holding both GeoLite2 databases
LegacyLookup(a, s, ipc) ==
    IF ~ParsesAsIp(s)
    THEN {[result |-> s, ip_cache |-> ipc, how |-> "unparsed", raw |-> ""]}
    ELSE IF a.only_routable /\ ~AsnRecord(s).found
    THEN {Cached(s, ipc, s, "legacy_passthrough", "")}
    ELSE {LegacyRendered(s, ipc, render(a.template, ProviderValues(s)))}

\* GeoIPSed::lookup(s) of a GeoIPSed made by new_with_provider with the
\* registry reg; ipc is IP_CACHE.  The outcomes are a set because the text
\* of a rendering depends on the order in which the map of values hands
\* out its keys.  The legacy path is reached by a text that does not parse
\* and when registry.lookup returns an error.
lookup(a, reg, s, ipc) ==
    IF s \in DOMAIN ipc
    THEN {[result |-> ipc[s], ip_cache |-> ipc, how |-> "ip_cache", raw |-> ""]}
    ELSE IF ParsesAsIp(s) /\ a.only_routable /\ ~RegistryHasAsn(reg, s)
    THEN {Cached(s, ipc, s, "passthrough", "")}
    ELSE IF ParsesAsIp(s) /\ HasActive(reg) /\ ProviderLookupOk(ActiveProvider(reg), s)
    THEN {Rendered(s, ipc, ProviderApplied(ActiveProvider(reg), s, a.template, order)) :
             order \in KeyOrders}
    ELSE LegacyLookup(a, s, ipc)

(***************************************************************************)
(* run(): its arguments, the lines it reads, and the state with nothing    *)
(* read yet                                                                *)
(***************************************************************************)
MaxLineToks == 2

CacheLimit == 100000

\* the texts given with --template
Templates == {"<{ip}|AS{asnnum}_{asnorg}|{city}>", "{ip} in {city}"}

\* the arguments that vary: --no-private, --only-routable and --template
ArgsSet ==
    [all : {FALSE}, no_private : BOOLEAN, no_loopback : {FALSE},
     no_broadcast : {FALSE}, only_routable : BOOLEAN, template : Templates]

NoArgs ==
    [all |-> FALSE, no_private |-> FALSE, no_loopback |-> FALSE,
     no_broadcast |-> FALSE, only_routable |-> FALSE, template |-> "{ip}"]

\* an address token ends with the space that separates it from the next
LineToks == {"1.2.3.4 ", "10.0.0.1 ", "x"}

OverlapLine == "1.2.3.255:aaaa:bbbb:cccc:dddd::255.255.255.255"

RECURSIVE ComposeLine(_)
ComposeLine(n) ==
    IF n = 0 THEN {""}
    ELSE LET shorter == ComposeLine(n - 1)
         IN  shorter \cup {a \o t : a \in shorter, t \in LineToks}

Lines == ComposeLine(MaxLineToks) \cup {OverlapLine}

\* the builder run() configures from the arguments
RunBuilder(a) ==
    IF ~(a.all \/ ~a.no_private) /\ ~(a.all \/ ~a.no_loopback)
       /\ ~(a.all \/ ~a.no_broadcast)
    THEN [NewBuilder EXCEPT !.include_private = FALSE,
                            !.include_loopback = FALSE,
                            !.include_broadcast = FALSE]
    ELSE [NewBuilder EXCEPT
            !.include_private = IF ~(a.all \/ ~a.no_private) THEN FALSE ELSE @,
            !.include_loopback = IF ~(a.all \/ ~a.no_loopback) THEN FALSE ELSE @,
            !.include_broadcast = IF ~(a.all \/ ~a.no_broadcast) THEN FALSE ELSE @]

NoneEmitted == [k \in {} |-> {}]

\* the decoration deco was written for the literal k
Emit(e, k, deco) ==
    [x \in DOMAIN e \cup {k} |->
        IF x = k THEN (IF k \in DOMAIN e THEN e[k] ELSE {}) \cup {deco} ELSE e[x]]

NoLookup == [ip |-> "", how |-> "none", raw |-> "", result |-> "", inserted |-> FALSE]

RunIdle ==
    /\ args = NoArgs
    /\ cache = NoCache
    /\ cache_other = 0
    /\ ip_cache = NoCache
    /\ ip_cache_other = 0
    /\ out = ""
    /\ last_pos = 0
    /\ decos = <<>>
    /\ rstate = "idle"
    /\ last_lookup = NoLookup
    /\ emitted = NoneEmitted
    /\ exit_code = "none"
    /\ stderr = <<>>
    /\ run_err = <<>>

\* a call and its result: the operation, whether it returned normally, its
\* argument, the files an initialize opened, the text returned, and for
\* GeoIPSed::lookup the path that produced it
Reply(op, ok, arg, opened, text, how) ==
    [op |-> op, ok |-> ok, arg |-> arg, opened |-> opened, text |-> text, how |-> how]

NoReply == Reply("none", TRUE, "", {}, "", "")

RegistryIdle ==
    /\ registry = DefaultRegistry
    /\ reply = NoReply

(***************************************************************************)
(* The output writer of run() and run_justips(): a BufWriter of Capacity   *)
(* bytes over the standard output                                          *)
(***************************************************************************)
Capacity == 65536

\* BufWriter::with_capacity: nothing buffered, nothing handed to stdout;
\* `broken` is the state of the descriptor, which then refuses every write
NewWriter == [buf |-> 0, sink |-> 0, broken |-> FALSE]

\* BufWriter::flush_buf: the buffered bytes are written to stdout
flush_buf(w) ==
    IF w.broken
    THEN [ok |-> FALSE, w |-> w]
    ELSE [ok |-> TRUE, w |-> [w EXCEPT !.sink = @ + w.buf, !.buf = 0]]

\* BufWriter::write_all of n bytes that do not fit the spare capacity: the
\* buffer is flushed first, and n >= Capacity bytes go to stdout directly
write_all_cold(w, n, f) ==
    IF ~f.ok THEN f
    ELSE IF n >= Capacity
    THEN IF f.w.broken
         THEN [ok |-> FALSE, w |-> f.w]
         ELSE [ok |-> TRUE, w |-> [f.w EXCEPT !.sink = @ + n]]
    ELSE [ok |-> TRUE, w |-> [f.w EXCEPT !.buf = @ + n]]

\* out.write_all(bytes), n the length of bytes
write_all(w, n) ==
    IF n < Capacity - w.buf
    THEN [ok |-> TRUE, w |-> [w EXCEPT !.buf = @ + n]]
    ELSE write_all_cold(w, n, IF n > Capacity - w.buf
                              THEN flush_buf(w)
                              ELSE [ok |-> TRUE, w |-> w])

\* out.flush()
flush(w) == flush_buf(w)

DropKeepsBuffer(w) == w

\* `out` goes out of scope: BufWriter's Drop writes the buffer out and
\* ignores the error
drop(w) == flush_buf(w).w

\* the invocation as the user of `out`: the mode, the position ("start":
\* between files, "file": in the loop over the lines of a file), the files
\* left, the write_all calls made, the bytes they accepted, how run
\* returned and what flushed the buffer last
NoRun == [mode |-> "none", pc |-> "start", files |-> 0, writes |-> 0,
          accepted |-> 0, result |-> "none", flushed |-> "none"]

WriterIdle ==
    /\ writer = NewWriter
    /\ wrun = NoRun

(***************************************************************************)
(* Tag and Tagged.  An Option is a sequence: <<>> for None, <<v>> for      *)
(* Some(v)                                                                 *)
(***************************************************************************)
\* Tag::new
Tag_new(ip) == [ip |-> ip, range |-> <<>>, decorated |-> <<>>]

with_range(t, start, end) == [t EXCEPT !.range = <<[start |-> start, end |-> end]>>]

with_decoration(t, d) == [t EXCEPT !.decorated = <<d>>]

\* Tagged::new
Tagged_new(text) == [text |-> text, tags |-> <<>>, text_data |-> <<>>]

\* Tagged::tag: the tag is pushed
tag(tg, t) == [tg EXCEPT !.tags = Append(@, t)]

\* &self.text[a..b] of write: the bytes, or a panic when a > b or b is past
\* the end of the text
Piece(text, a, b) ==
    IF a <= b /\ b <= Len(text)
    THEN [ok |-> TRUE, bytes |-> Slice(text, a, b)]
    ELSE [ok |-> FALSE, bytes |-> ""]

\* two writes in a row: the second is not reached when the first panicked
Cat(p, q) ==
    IF p.ok THEN [ok |-> q.ok, bytes |-> p.bytes \o q.bytes] ELSE p

\* the decorated version if available, or the bytes of the range r
DecoratedOr(text, t, r) ==
    IF t.decorated # <<>>
    THEN [ok |-> TRUE, bytes |-> t.decorated[1]]
    ELSE Piece(text, r.start, r.end)

\* Tagged::write, one tag with a range
WriteOne(text, t, r) ==
    Cat(Cat(Piece(text, 0, r.start), DecoratedOr(text, t, r)),
        Piece(text, r.end, Len(text)))

\* Tagged::write, two tags with ranges: tag1 and tag2 are swapped when
\* range1.start > range2.start; range1 and range2 stay as they were bound
WriteTwo(text, t1, t2, r1, r2) ==
    Cat(Cat(Cat(Cat(Piece(text, 0, r1.start),
                    DecoratedOr(text, IF r1.start > r2.start THEN t2 ELSE t1, r1)),
                Piece(text, r1.end, r2.start)),
            DecoratedOr(text, IF r1.start > r2.start THEN t1 ELSE t2, r2)),
        Piece(text, r2.end, Len(text)))

\* the debug_assert! of write: consecutive ranged tags are in order
DebugSorted(tags) ==
    \A i \in 2..Len(tags) :
        (tags[i - 1].range # <<>> /\ tags[i].range # <<>>)
            => tags[i - 1].range[1].start <= tags[i].range[1].start

\* Tagged::write, the loop over the tags from the i-th on, and the rest of
\* the text after it
RECURSIVE WriteLoop(_, _, _, _)
WriteLoop(text, tags, i, last_end) ==
    IF i > Len(tags)
    THEN IF last_end < Len(text)
         THEN Piece(text, last_end, Len(text))
         ELSE [ok |-> TRUE, bytes |-> ""]
    ELSE IF tags[i].range = <<>>
    THEN WriteLoop(text, tags, i + 1, last_end)
    ELSE Cat(Cat(Piece(text, last_end, tags[i].range[1].start),
                 DecoratedOr(text, tags[i], tags[i].range[1])),
             WriteLoop(text, tags, i + 1, tags[i].range[1].end))

\* Tagged::write; debug: the build has debug_assertions
write(tg, debug) ==
    IF tg.tags = <<>>
    THEN [ok |-> TRUE, bytes |-> tg.text]
    ELSE IF Len(tg.tags) = 1 /\ tg.tags[1].range # <<>>
    THEN WriteOne(tg.text, tg.tags[1], tg.tags[1].range[1])
    ELSE IF Len(tg.tags) = 2 /\ tg.tags[1].range # <<>> /\ tg.tags[2].range # <<>>
    THEN WriteTwo(tg.text, tg.tags[1], tg.tags[2],
                  tg.tags[1].range[1], tg.tags[2].range[1])
    ELSE IF debug /\ ~DebugSorted(tg.tags)
    THEN [ok |-> FALSE, bytes |-> ""]
    ELSE WriteLoop(tg.text, tg.tags, 1, 0)

\* String::from_utf8_lossy: the modelled texts are ASCII, which it keeps
from_utf8_lossy(text) == text

\* Tagged::write_json: text_data is set from the text unless it is set, and
\* the document (tags and data) is serialized
write_json(tg) ==
    IF tg.text_data = <<>>
    THEN [tg EXCEPT !.text_data = <<from_utf8_lossy(tg.text)>>]
    ELSE tg

\* the ranges find_iter returns on h, r being the next one
RECURSIVE Ranges(_, _, _)
Ranges(ex, h, r) ==
    IF r.some
    THEN <<r>> \o Ranges(ex, h, FindNext(ex, h, r.input_start))
    ELSE <<>>

\* tag mode of run(): one tag with an empty decoration for each range
RECURSIVE TagLineRanges(_, _, _)
TagLineRanges(tg, rs, i) ==
    IF i > Len(rs) THEN tg
    ELSE TagLineRanges(
             tag(tg, with_decoration(
                         with_range(Tag_new(Slice(tg.text, rs[i].start, rs[i].end)),
                                    rs[i].start, rs[i].end), "")),
             rs, i + 1)

\* tag mode of run(): the document written for one line
tag_line(ex, line) ==
    write_json(TagLineRanges(Tagged_new(line),
                             Ranges(ex, line, FindNext(ex, line, 0)), 1))

\* tag_file: one tag for each range of the content
RECURSIVE TagFileRanges(_, _, _)
TagFileRanges(tg, rs, i) ==
    IF i > Len(rs) THEN tg
    ELSE TagFileRanges(
             tag(tg, with_range(Tag_new(from_utf8_lossy(
                                            Slice(tg.text, rs[i].start, rs[i].end))),
                                rs[i].start, rs[i].end)),
             rs, i + 1)

\* Tagged::set_text_data
set_text_data(tg, text) == [tg EXCEPT !.text_data = <<text>>]

TagFileAlways(tg) == <<write_json(set_text_data(tg, from_utf8_lossy(tg.text)))>>

\* tag_file, tg holding the tags of the content: the documents written
TagFileOutput(tg) ==
    IF tg.tags # <<>>
    THEN <<write_json(set_text_data(tg, from_utf8_lossy(tg.text)))>>
    ELSE <<>>

\* tag_file on a file of the given content
tag_file(ex, content) ==
    TagFileOutput(TagFileRanges(Tagged_new(content),
                                Ranges(ex, content, FindNext(ex, content, 0)), 1))

NoWrote == [op |-> "none", ok |-> TRUE, bytes |-> ""]

NoTagRun == [mode |-> "none", inputs |-> <<>>, docs |-> <<>>]

TaggedIdle ==
    /\ tagged = Tagged_new("")
    /\ wrote = NoWrote
    /\ tagrun = NoTagRun

(***************************************************************************)
(* Template (template.rs): compile, render_with_map, fields                *)
(***************************************************************************)
Literal(text) == [kind |-> "Literal", text |-> text]

Field(name) == [kind |-> "Field", text |-> name]

TemplateErr == [ok |-> FALSE, parts |-> <<>>, estimated_size |-> 0]

\* template[from..].find('}'): the offset of the first '}' at or after the
\* 0-based offset `from`, -1 for None
FindClose(template, from) ==
    IF \E j \in from..(Len(template) - 1) : At(template, j + 1) = "}"
    THEN (CHOOSE j \in from..(Len(template) - 1) :
              /\ At(template, j + 1) = "}"
              /\ \A k \in from..(j - 1) : At(template, k + 1) # "}") - from
    ELSE -1

NeverEscaped(template, i) == FALSE

\* bytes[i] == b'{' is followed by another '{'
EscapedOpen(template, i) ==
    i + 1 < Len(template) /\ At(template, i + 2) = "{"

NeverEmpty(field_name) == FALSE

\* field_name.is_empty()
is_empty(field_name) == field_name = ""

\* the accumulated literal is flushed into the parts
FlushLiteral(parts, literal) ==
    IF literal # "" THEN Append(parts, Literal(literal)) ELSE parts

\* the loop of compile from the offset i on
RECURSIVE CompileFrom(_, _, _, _, _)
CompileFrom(template, i, literal, parts, estimated_size) ==
    IF i >= Len(template)
    THEN [ok |-> TRUE, parts |-> FlushLiteral(parts, literal),
          estimated_size |-> estimated_size + Len(literal)]
    ELSE IF At(template, i + 1) = "{"
    THEN IF EscapedOpen(template, i)
         THEN CompileFrom(template, i + 2, literal \o "{", parts, estimated_size)
         ELSE IF FindClose(template, i + 1) >= 0
         THEN IF is_empty(Slice(template, i + 1, i + 1 + FindClose(template, i + 1)))
              THEN TemplateErr
              ELSE CompileFrom(template, i + 1 + FindClose(template, i + 1) + 1, "",
                       Append(FlushLiteral(parts, literal),
                              Field(Slice(template, i + 1,
                                          i + 1 + FindClose(template, i + 1)))),
                       estimated_size + Len(literal) + 16)
         ELSE CompileFrom(template, i + 1, literal \o "{", parts, estimated_size)
    ELSE IF At(template, i + 1) = "}" /\ i + 1 < Len(template)
            /\ At(template, i + 2) = "}"
    THEN CompileFrom(template, i + 2, literal \o "}", parts, estimated_size)
    ELSE CompileFrom(template, i + 1, literal \o At(template, i + 1), parts,
                     estimated_size)

\* Template::compile
compile(template) == CompileFrom(template, 0, "", <<>>, 0)

\* Template::render_with_map from the i-th part on: unknown fields are
\* replaced with an empty string
RECURSIVE RenderFrom(_, _, _)
RenderFrom(parts, values, i) ==
    IF i > Len(parts) THEN ""
    ELSE (IF parts[i].kind = "Literal" THEN parts[i].text
          ELSE IF parts[i].text \in DOMAIN values THEN values[parts[i].text]
          ELSE "")
         \o RenderFrom(parts, values, i + 1)

render_with_map(template, values) == RenderFrom(template.parts, values, 1)

\* Template::fields
fields(template) ==
    [k \in 1..Len(SelectSeq(template.parts, LAMBDA part : part.kind = "Field")) |->
        SelectSeq(template.parts, LAMBDA part : part.kind = "Field")[k].text]

TemplateIdle ==
    /\ tpl = ""
    /\ compiled = compile("")
    /\ rendered = <<>>

LibIdle == WriterIdle /\ TaggedIdle /\ TemplateIdle

(***************************************************************************)
(* Specification SpecParse: parse_ipv4_bytes applied to byte strings built *)
(* from up to MaxGroups dot-separated groups.                              *)
(***************************************************************************)
MaxGroups == 5

OctetToks == {"", "0", "1", "01", "25", "255", "256", "1a"}

ParseIdle ==
    /\ pbytes = ""
    /\ pgroups = 0
    /\ presult = parse_ipv4_bytes("")

ExtractIdle ==
    /\ builder = NewBuilder
    /\ extractor = NoExtractor
    /\ built = "none"
    /\ haystack = ""
    /\ input_start = 0
    /\ yielded = <<>>
    /\ iter = "none"

InitParse == ParseIdle /\ ExtractIdle /\ RunIdle /\ RegistryIdle /\ LibIdle

\* the caller passes a longer byte string: one more group
ParseGroup ==
    /\ pgroups < MaxGroups
    /\ \E t \in OctetToks :
          LET b == IF pgroups = 0 THEN t ELSE pbytes \o "." \o t
          IN  /\ pbytes' = b
              /\ presult' = parse_ipv4_bytes(b)
    /\ pgroups' = pgroups + 1
    /\ UNCHANGED <<tvars, gvars, xvars, rvars>>

NextParse == ParseGroup

SpecParse == InitParse /\ [][NextParse]_vars


(***************************************************************************)
(* Specification SpecExtract: a builder is configured and built, and the   *)
(* extractor's find_iter is driven over haystacks composed of tokens.      *)
(***************************************************************************)
MaxTokens == 2

MaxMatches == 4

HaystackToks ==
    {"1.2.3.255", "10.0.0.1", "127.0.0.1", "169.254.1.1", "255.255.255.255",
     "::1", "fe80::1", "fd00::1", ":aaaa:bbbb:cccc:dddd::255.255.255.255",
     " ", "5", "."}

RECURSIVE Compose(_)
Compose(n) ==
    IF n = 0 THEN {""}
    ELSE LET shorter == Compose(n - 1)
         IN  shorter \cup {a \o t : a \in shorter, t \in HaystackToks}

Haystacks == Compose(MaxTokens)

BuilderFields ==
    {"include_ipv4", "include_ipv6", "include_private",
     "include_loopback", "include_broadcast"}

InitExtract == ParseIdle /\ ExtractIdle /\ RunIdle /\ RegistryIdle /\ LibIdle

\* ipv4(), ipv6(), private_ips(), loopback_ips(), broadcast_ips() and the
\* ignore_* shorthands: one field set
SetFlag ==
    /\ ~extractor.ok
    /\ \E f \in BuilderFields, v \in BOOLEAN :
          builder' = [builder EXCEPT ![f] = v]
    /\ UNCHANGED <<tvars, gvars, pvars, rvars, extractor, built, haystack, input_start, yielded, iter>>

\* only_public()
OnlyPublic ==
    /\ ~extractor.ok
    /\ builder' = [builder EXCEPT !.include_private = FALSE,
                                  !.include_loopback = FALSE,
                                  !.include_broadcast = FALSE]
    /\ UNCHANGED <<tvars, gvars, pvars, rvars, extractor, built, haystack, input_start, yielded, iter>>

\* build()
BuildExtractor ==
    /\ ~extractor.ok
    /\ extractor' = Build(builder)
    /\ built' = BuildResult(extractor')
    /\ UNCHANGED <<tvars, gvars, pvars, rvars, builder, haystack, input_start, yielded, iter>>

\* find_iter(haystack): Input::new(haystack)
FindIter ==
    /\ extractor.ok
    /\ iter = "none"
    /\ \E h \in Haystacks : haystack' = h
    /\ input_start' = 0
    /\ yielded' = <<>>
    /\ iter' = "active"
    /\ UNCHANGED <<tvars, gvars, pvars, rvars, builder, extractor, built>>

\* next() returning r
IterReturn(r) ==
    /\ input_start' = r.input_start
    /\ IF r.some
       THEN /\ yielded' = Append(yielded, [start |-> r.start, end |-> r.end,
                                           kind |-> r.kind])
            /\ iter' = iter
       ELSE /\ yielded' = yielded
            /\ iter' = "done"

\* one next() on the iterator
IterNext ==
    /\ iter = "active"
    /\ Len(yielded) < MaxMatches
    /\ IterReturn(FindNext(extractor, haystack, input_start))
    /\ UNCHANGED <<tvars, gvars, pvars, rvars, builder, extractor, built, haystack>>

NextExtract == SetFlag \/ OnlyPublic \/ BuildExtractor \/ FindIter \/ IterNext

SpecExtract == InitExtract /\ [][NextExtract]_vars

\* the consumer of the iterator (`for range in extractor.find_iter(..)`)
\* calls next() until it returns None: weak fairness of IterNext, which is
\* enabled exactly when the iterator is active and below the bound, with
\* ENABLED <<IterNext>>_vars written out as that condition
SpecExtractFair ==
    /\ SpecExtract
    /\ \/ []<>~(iter = "active" /\ Len(yielded) < MaxMatches)
       \/ []<><<IterNext>>_vars

(***************************************************************************)
(* Specification SpecBoundary: the kinds are selected with ipv4() and      *)
(* ipv6(), the extractor is built, and find_iter is driven over an address *)
(* followed by up to MaxSuffixToks tokens.                                 *)
(***************************************************************************)
MaxSuffixToks == 2

BoundaryAddrs == {"1.2.3.4", "fe80::1"}

SuffixToks == {" ", ",", ")", ".", "5", "abc", "%", "eth0"}

RECURSIVE Suffixes(_)
Suffixes(n) ==
    IF n = 0 THEN {""}
    ELSE LET shorter == Suffixes(n - 1)
         IN  shorter \cup {a \o t : a \in shorter, t \in SuffixToks}

BoundaryHaystacks == {a \o x : a \in BoundaryAddrs, x \in Suffixes(MaxSuffixToks)}

InitBoundary == ParseIdle /\ ExtractIdle /\ RunIdle /\ RegistryIdle /\ LibIdle

\* ipv4(include), ipv6(include)
SetKind ==
    /\ ~extractor.ok
    /\ \E f \in {"include_ipv4", "include_ipv6"}, v \in BOOLEAN :
          builder' = [builder EXCEPT ![f] = v]
    /\ UNCHANGED <<tvars, gvars, pvars, rvars, extractor, built, haystack, input_start, yielded, iter>>

\* find_iter(haystack): Input::new(haystack)
FindBoundary ==
    /\ extractor.ok
    /\ iter = "none"
    /\ \E h \in BoundaryHaystacks : haystack' = h
    /\ input_start' = 0
    /\ yielded' = <<>>
    /\ iter' = "active"
    /\ UNCHANGED <<tvars, gvars, pvars, rvars, builder, extractor, built>>

NextBoundary == SetKind \/ BuildExtractor \/ FindBoundary \/ IterNext

SpecBoundary == InitBoundary /\ [][NextBoundary]_vars

(***************************************************************************)
(* Specification SpecProvider: a registry made by default() is driven      *)
(* through its public operations, and a GeoIPSed holding it is asked for   *)
(* decorations.                                                            *)
(***************************************************************************)
\* the names given to register and to set_active_provider
ProviderNames == {"maxmind", "ipinfo", "custom", "geoip"}

\* the texts given to lookup and has_asn
ProviderAddrs == {"1.2.3.4", "x"}

ProviderTemplate == "{ip} in {city}"

\* two of the orders in which the map of values may hand out its keys;
\* what ProviderTemplate renders to is the same under every order
ProviderOrders ==
    {<<"ip", "asnnum", "asnorg", "city">>, <<"city", "asnorg", "asnnum", "ip">>}

InitProvider == ParseIdle /\ ExtractIdle /\ RunIdle /\ RegistryIdle /\ LibIdle

\* register(name, provider) with a new provider: "maxmind" anew, or an
\* IP2Location provider under the name "custom"
Register ==
    /\ \E name \in {"maxmind", "custom"} :
          /\ registry' = RegistryRegister(registry, name,
                             DefaultProvider(IF name = "custom" THEN "ip2location"
                                             ELSE "maxmind"))
          /\ reply' = Reply("register", TRUE, name, {}, "", "")
    /\ UNCHANGED <<tvars, pvars, xvars, rvars>>

SetActiveReturn(name, r) ==
    /\ registry' = r.reg
    /\ reply' = Reply("set_active_provider", r.ok, name, {}, "", "")

\* set_active_provider(name)
SetActive ==
    /\ \E name \in ProviderNames :
          SetActiveReturn(name, set_active_provider(registry, name))
    /\ UNCHANGED <<tvars, pvars, xvars, rvars>>

InitializeReturn(path, r) ==
    /\ registry' = r.reg
    /\ reply' = Reply("initialize", r.ok, path, r.opened, "", "")

\* initialize_active_provider(Some(path))
InitializeActive ==
    /\ \E path \in Dirs :
          InitializeReturn(path, initialize_active_provider(registry, path))
    /\ UNCHANGED <<tvars, pvars, xvars, rvars>>

LookupReturn(ip, r) ==
    reply' = Reply("lookup", r.ok, ip, {}, r.text, "")

\* lookup(ip, template) on the registry
Lookup ==
    /\ \E ip \in ProviderAddrs, order \in ProviderOrders :
          LookupReturn(ip, RegistryLookup(registry, ip, ProviderTemplate, order))
    /\ UNCHANGED <<tvars, pvars, xvars, rvars, registry>>

\* has_asn(ip) on the registry
HasAsn ==
    /\ \E ip \in ProviderAddrs :
          reply' = Reply("has_asn", TRUE, ip, {},
                         IF RegistryHasAsn(registry, ip) THEN "true" ELSE "false", "")
    /\ UNCHANGED <<tvars, pvars, xvars, rvars, registry>>

\* available_fields() on the registry
AvailableFields ==
    /\ reply' = Reply("available_fields", HasActive(registry), "", {}, "", "")
    /\ UNCHANGED <<tvars, pvars, xvars, rvars, registry>>

\* GeoIPSed::lookup(s) of a GeoIPSed that new_with_provider made with the
\* registry, the template and --only-routable or not, called on a thread
\* that has looked nothing up yet: its IP_CACHE is empty, and is not the
\* one ip_cache follows
GeoLookup ==
    /\ \E s \in ProviderAddrs, r \in BOOLEAN :
          \E lk \in lookup([NoArgs EXCEPT !.template = ProviderTemplate,
                                          !.only_routable = r],
                           registry, s, NoCache) :
              reply' = Reply("GeoIPSed::lookup", TRUE, s, {}, lk.result, lk.how)
    /\ UNCHANGED <<tvars, pvars, xvars, rvars, registry>>

NextProvider ==
    \/ Register
    \/ SetActive
    \/ InitializeActive
    \/ Lookup
    \/ HasAsn
    \/ AvailableFields
    \/ GeoLookup

SpecProvider == InitProvider /\ [][NextProvider]_vars

(***************************************************************************)
(* Specification SpecRun: run() in decorate mode.  The extractor is built  *)
(* from the arguments, then lines are read and each match of a line is     *)
(* looked up, decorated and written.                                       *)
(***************************************************************************)
InitRun ==
    /\ ParseIdle
    /\ LibIdle
    /\ args \in ArgsSet
    /\ builder = RunBuilder(args)
    /\ extractor = Build(builder)
    /\ built = BuildResult(extractor)
    /\ haystack = ""
    /\ input_start = 0
    /\ yielded = <<>>
    /\ iter = "none"
    /\ cache = NoCache
    /\ cache_other = 0
    /\ ip_cache = NoCache
    /\ ip_cache_other = 0
    /\ out = ""
    /\ last_pos = 0
    /\ decos = <<>>
    /\ rstate = "idle"
    /\ last_lookup = NoLookup
    /\ emitted = NoneEmitted
    /\ exit_code = "none"
    /\ stderr = <<>>
    /\ run_err = <<>>
    /\ registry = RunRegistry
    /\ reply = NoReply

\* cache.len(), `other` counting the entries of literals outside Lines
CacheLen(c, other) == Cardinality(DOMAIN c) + other

\* the next line of the input: last_pos = 0 and find_iter(line)
StartLine ==
    /\ rstate \in {"idle", "eol"}
    /\ \E line \in Lines : haystack' = line
    /\ input_start' = 0
    /\ yielded' = <<>>
    /\ iter' = "active"
    /\ out' = ""
    /\ last_pos' = 0
    /\ decos' = <<>>
    /\ rstate' = "line"
    /\ last_lookup' = NoLookup
    /\ UNCHANGED <<tvars, gvars, pvars, builder, extractor, built, args, cache, cache_other,
                   ip_cache, ip_cache_other, emitted, exit_code, stderr, run_err>>

\* cache miss: the result lk of the lookup is written, and inserted while
\* the cache holds fewer than CacheLimit entries
Miss(ip_bytes, lk) ==
    /\ decos' = Append(decos, lk.result)
    /\ ip_cache' = lk.ip_cache
    /\ cache' = IF CacheLen(cache, cache_other) < CacheLimit
                THEN Insert(cache, ip_bytes, lk.result)
                ELSE cache
    /\ last_lookup' = [ip |-> ip_bytes, how |-> lk.how, raw |-> lk.raw,
                       result |-> lk.result,
                       inserted |-> CacheLen(cache, cache_other) < CacheLimit]

\* the decoration of one match: from the cache, from the lookup, or the
\* text itself when it does not parse
Decoration(ip_bytes) ==
    IF ip_bytes \in DOMAIN cache
    THEN /\ decos' = Append(decos, cache[ip_bytes])
         /\ last_lookup' = [ip |-> ip_bytes, how |-> "cache", raw |-> "",
                            result |-> cache[ip_bytes], inserted |-> FALSE]
         /\ UNCHANGED <<cache, ip_cache>>
    ELSE IF ParsesAsIp(ip_bytes)
    THEN \E lk \in lookup(args, registry, ip_bytes, ip_cache) : Miss(ip_bytes, lk)
    ELSE /\ decos' = Append(decos, ip_bytes)
         /\ last_lookup' = [ip |-> ip_bytes, how |-> "unparsed", raw |-> "",
                            result |-> ip_bytes, inserted |-> FALSE]
         /\ UNCHANGED <<cache, ip_cache>>

\* the body of the loop for the range r the iterator returned;
\* &line[last_pos..range.start] panics when last_pos > range.start
MatchStep(r) ==
    /\ r.some
    /\ input_start' = r.input_start
    /\ yielded' = Append(yielded, [start |-> r.start, end |-> r.end, kind |-> r.kind])
    /\ IF last_pos > r.start
       THEN /\ rstate' = "panicked"
            /\ UNCHANGED <<out, last_pos, decos, cache, ip_cache, last_lookup,
                           emitted>>
       ELSE /\ Decoration(Slice(haystack, r.start, r.end))
            /\ out' = out \o Slice(haystack, last_pos, r.start) \o decos'[Len(decos')]
            /\ emitted' = Emit(emitted, Slice(haystack, r.start, r.end),
                               decos'[Len(decos')])
            /\ last_pos' = r.end
            /\ rstate' = rstate

\* one turn of `for range in extractor.find_iter(line)`
DecorateMatch ==
    /\ rstate = "line"
    /\ MatchStep(FindNext(extractor, haystack, input_start))
    /\ UNCHANGED <<tvars, gvars, pvars, builder, extractor, built, haystack, iter, args,
                   cache_other, ip_cache_other, exit_code, stderr, run_err>>

\* the iterator is exhausted: out.write_all(&line[last_pos..])
LineTail(r) ==
    /\ ~r.some
    /\ input_start' = r.input_start
    /\ iter' = "done"
    /\ out' = out \o Slice(haystack, last_pos, Len(haystack))
    /\ rstate' = "eol"

EndLine ==
    /\ rstate = "line"
    /\ LineTail(FindNext(extractor, haystack, input_start))
    /\ UNCHANGED <<tvars, gvars, pvars, builder, extractor, built, haystack, yielded, args, cache,
                   cache_other, ip_cache, ip_cache_other, last_pos, decos,
                   last_lookup, emitted, exit_code, stderr, run_err>>

\* the entries n lookups of new literals add to the cache of run()
NewEntries(n, len) ==
    IF len >= CacheLimit THEN 0
    ELSE IF n < CacheLimit - len THEN n ELSE CacheLimit - len

\* CacheLimit \div 2 lines, each one address that is not in Lines and was
\* not seen before: every one is looked up, put into IP_CACHE, and put
\* into the cache of run() while that holds fewer than CacheLimit entries
FreshLines ==
    /\ rstate \in {"idle", "eol"}
    /\ ip_cache_other + CacheLimit \div 2 <= CacheLimit
    /\ ip_cache_other' = ip_cache_other + CacheLimit \div 2
    /\ cache_other' = cache_other
                        + NewEntries(CacheLimit \div 2, CacheLen(cache, cache_other))
    /\ haystack' = ""
    /\ input_start' = 0
    /\ yielded' = <<>>
    /\ iter' = "none"
    /\ out' = ""
    /\ last_pos' = 0
    /\ decos' = <<>>
    /\ rstate' = "idle"
    /\ last_lookup' = NoLookup
    /\ UNCHANGED <<tvars, gvars, pvars, builder, extractor, built, args, cache, ip_cache,
                   emitted, exit_code, stderr, run_err>>

\* the errors a write_all or a flush of `out` may return, each the chain
\* of its causes, outermost first: an io::Error of some kind, alone or
\* under a context
WriteErrors ==
    {<<[io |-> TRUE, kind |-> "BrokenPipe"]>>,
     <<[io |-> TRUE, kind |-> "StorageFull"]>>,
     <<[io |-> FALSE, kind |-> "context"], [io |-> TRUE, kind |-> "BrokenPipe"]>>}

NeverBrokenPipe(err) == FALSE

\* is_broken_pipe: a cause of the chain is an io::Error of kind BrokenPipe
is_broken_pipe(err) ==
    \E i \in 1..Len(err) : err[i].io /\ err[i].kind = "BrokenPipe"

\* main, run_main having returned Err(err): the exit status, and what is
\* written to the standard error
main(err) ==
    IF is_broken_pipe(err)
    THEN [exit_code |-> "success", stderr |-> <<>>]
    ELSE [exit_code |-> "failure", stderr |-> <<err>>]

\* run() and main after the failed write: `?` returns the error err, and
\* main gives m
Exit(err, m) ==
    /\ rstate' = "exited"
    /\ run_err' = err
    /\ exit_code' = m.exit_code
    /\ stderr' = m.stderr

\* the next write of run() returns an error: within a line the write_all
\* that opens the next turn of the loop (or the one after the loop), and
\* between lines the flush at the end of the input
WriteError ==
    /\ rstate \in {"idle", "line", "eol"}
    /\ \E err \in WriteErrors : Exit(err, main(err))
    /\ UNCHANGED <<tvars, gvars, pvars, xvars, args, cache, cache_other, ip_cache,
                   ip_cache_other, out, last_pos, decos, last_lookup, emitted>>

\* the input is exhausted: out.flush() returns Ok, run() returns Ok(()) and
\* run_main returns Ok(ExitCode::SUCCESS)
EndOfInput ==
    /\ rstate \in {"idle", "eol"}
    /\ rstate' = "exited"
    /\ exit_code' = "success"
    /\ stderr' = <<>>
    /\ run_err' = <<>>
    /\ UNCHANGED <<tvars, gvars, pvars, xvars, args, cache, cache_other, ip_cache,
                   ip_cache_other, out, last_pos, decos, last_lookup, emitted>>

NextRun ==
    StartLine \/ DecorateMatch \/ EndLine \/ FreshLines \/ WriteError \/ EndOfInput

SpecRun == InitRun /\ [][NextRun]_vars

(***************************************************************************)
(* Specification SpecWriter: run() and run_justips() as the users of the   *)
(* output writer, over up to MaxFiles input files and MaxWrites calls of   *)
(* write_all                                                               *)
(***************************************************************************)
MaxFiles == 2

MaxWrites == 3

\* "lines": the loop of run() over the lines of each file (decorate,
\* only-matching and tag modes use `out` alike)
WriterModes == {"justips", "tag_files", "lines"}

\* the lengths of the byte strings written: a short one, one that fits the
\* buffer once, one longer than the buffer
WriteSizes == {1, 40000, 70000}

InitWriter ==
    /\ ParseIdle
    /\ ExtractIdle
    /\ RunIdle
    /\ RegistryIdle
    /\ TaggedIdle
    /\ TemplateIdle
    /\ writer = NewWriter
    /\ \E m \in WriterModes, n \in 1..MaxFiles :
          wrun = [NoRun EXCEPT !.mode = m, !.files = n]

\* run returns (or unwinds) with `result`, w the writer at that point:
\* `out` is dropped
Return(result, w) ==
    /\ writer' = drop(w)
    /\ wrun' = [wrun EXCEPT !.pc = "exited", !.result = result,
                            !.flushed = IF drop(w) # w THEN "drop" ELSE @]

\* file.reader() / File::open returns Ok
OpenFile ==
    /\ wrun.pc = "start"
    /\ wrun.files > 0
    /\ wrun' = [wrun EXCEPT !.pc = "file"]
    /\ UNCHANGED <<gvars, pvars, xvars, rvars, tpl, compiled, rendered, tagged, wrote, tagrun, writer>>

\* file.reader(), lb_reader.fill(), File::open or read_to_end returns Err,
\* and `?` returns it
ReadError ==
    /\ \/ wrun.pc = "start" /\ wrun.files > 0
       \/ wrun.pc = "file"
    /\ Return("err", writer)
    /\ UNCHANGED <<gvars, pvars, xvars, rvars, tpl, compiled, rendered, tagged, wrote, tagrun>>

\* one out.write_all(..)? of n bytes, r its result
WriteStep(n, r) ==
    IF r.ok
    THEN /\ writer' = r.w
         /\ wrun' = [wrun EXCEPT !.writes = @ + 1, !.accepted = @ + n]
    ELSE Return("err", r.w)

WriteAll ==
    /\ wrun.pc = "file"
    /\ wrun.writes < MaxWrites
    /\ \E n \in WriteSizes : WriteStep(n, write_all(writer, n))
    /\ UNCHANGED <<gvars, pvars, xvars, rvars, tpl, compiled, rendered, tagged, wrote, tagrun>>

\* the out.flush()? that ends a file, f its result
FlushStep(f) ==
    IF f.ok
    THEN /\ writer' = f.w
         /\ wrun' = [wrun EXCEPT !.pc = "start", !.files = @ - 1,
                                 !.flushed = "flush"]
    ELSE Return("err", f.w)

\* the input file is exhausted: out.flush()? in run() and run_justips();
\* tag_files goes on to the next path
EndFile ==
    /\ wrun.pc = "file"
    /\ IF wrun.mode = "tag_files"
       THEN /\ wrun' = [wrun EXCEPT !.pc = "start", !.files = @ - 1]
            /\ UNCHANGED writer
       ELSE FlushStep(flush(writer))
    /\ UNCHANGED <<gvars, pvars, xvars, rvars, tpl, compiled, rendered, tagged, wrote, tagrun>>

\* the out.flush()? after tag_files returned Ok, f its result
FinalFlush(f) ==
    IF f.ok
    THEN /\ writer' = drop(f.w)
         /\ wrun' = [wrun EXCEPT !.pc = "exited", !.result = "ok",
                                 !.flushed = "flush"]
    ELSE Return("err", f.w)

\* no input file is left: Ok(())
Finish ==
    /\ wrun.pc = "start"
    /\ wrun.files = 0
    /\ IF wrun.mode = "tag_files"
       THEN FinalFlush(flush(writer))
       ELSE Return("ok", writer)
    /\ UNCHANGED <<gvars, pvars, xvars, rvars, tpl, compiled, rendered, tagged, wrote, tagrun>>

\* &line[last_pos..range.start] panics in the decorate loop: the stack
\* unwinds and `out` is dropped
Panic ==
    /\ wrun.pc = "file"
    /\ wrun.mode = "lines"
    /\ Return("panic", writer)
    /\ UNCHANGED <<gvars, pvars, xvars, rvars, tpl, compiled, rendered, tagged, wrote, tagrun>>

\* the reader of the standard output goes away: from now on every write to
\* the descriptor fails
ClosePipe ==
    /\ wrun.pc # "exited"
    /\ ~writer.broken
    /\ writer' = [writer EXCEPT !.broken = TRUE]
    /\ UNCHANGED <<gvars, pvars, xvars, rvars, tpl, compiled, rendered, tagged, wrote, tagrun, wrun>>

NextWriter ==
    OpenFile \/ ReadError \/ WriteAll \/ EndFile \/ Finish \/ Panic \/ ClosePipe

SpecWriter == InitWriter /\ [][NextWriter]_vars

(***************************************************************************)
(* Specification SpecTagged: Tagged built by tag() calls and written, and  *)
(* the documents of tag mode and of tag-files mode                         *)
(***************************************************************************)
MaxTags == 3

MaxInputs == 2

WriteText == "1.1.1.1 2.2.2.2 ::1"

\* the tags handed to tag(): one for each address of WriteText, with or
\* without a decoration, one across two addresses, one without a range
TagPool ==
    {with_decoration(with_range(Tag_new("1.1.1.1"), 0, 7), "<A>"),
     with_range(Tag_new("2.2.2.2"), 8, 15),
     with_decoration(with_range(Tag_new("2.2.2.2"), 8, 15), "<B>"),
     with_decoration(with_range(Tag_new("::1"), 16, 19), "<C>"),
     with_decoration(with_range(Tag_new("1.1 2.2"), 4, 11), "<D>"),
     Tag_new("::1")}

\* the lines of tag mode
TagLines == {"", "x", "1.2.3.4 x 10.0.0.1", OverlapLine}

\* the contents of the files of tag-files mode
TagFiles == TagLines \cup {"x\n1.2.3.4"}

TagExtractor == Build(RunBuilder(NoArgs))

InitTagged ==
    /\ ParseIdle
    /\ ExtractIdle
    /\ RunIdle
    /\ RegistryIdle
    /\ WriterIdle
    /\ TemplateIdle
    /\ tagged = Tagged_new(WriteText)
    /\ wrote = NoWrote
    /\ \E m \in {"lib", "tag", "tag_files"} : tagrun = [NoTagRun EXCEPT !.mode = m]

\* tagged = tagged.tag(t)
TagCall ==
    /\ tagrun.mode = "lib"
    /\ Len(tagged.tags) < MaxTags
    /\ \E t \in TagPool : tagged' = tag(tagged, t)
    /\ wrote' = NoWrote
    /\ UNCHANGED <<gvars, pvars, xvars, rvars, tpl, compiled, rendered, writer, wrun, tagrun>>

\* tagged.write(&mut output), output a Vec
Write ==
    /\ tagrun.mode = "lib"
    /\ wrote.op = "none"
    /\ \E debug \in BOOLEAN :
          wrote' = [op |-> "write", ok |-> write(tagged, debug).ok,
                    bytes |-> write(tagged, debug).bytes]
    /\ UNCHANGED <<gvars, pvars, xvars, rvars, tpl, compiled, rendered, writer, wrun, tagged, tagrun>>

\* tag mode of run(): the next line, doc the document written for it
TagLineStep(line, doc) ==
    /\ tagged' = doc
    /\ tagrun' = [tagrun EXCEPT !.inputs = Append(@, line), !.docs = Append(@, doc)]

TagLine ==
    /\ tagrun.mode = "tag"
    /\ Len(tagrun.inputs) < MaxInputs
    /\ \E line \in TagLines : TagLineStep(line, tag_line(TagExtractor, line))
    /\ UNCHANGED <<gvars, pvars, xvars, rvars, tpl, compiled, rendered, writer, wrun, wrote>>

\* tag_files: the next path, docs what tag_file wrote for it
TagFileStep(content, docs) ==
    /\ tagged' = IF docs = <<>> THEN tagged ELSE docs[1]
    /\ tagrun' = [tagrun EXCEPT !.inputs = Append(@, content), !.docs = @ \o docs]

TagFile ==
    /\ tagrun.mode = "tag_files"
    /\ Len(tagrun.inputs) < MaxInputs
    /\ \E content \in TagFiles : TagFileStep(content, tag_file(TagExtractor, content))
    /\ UNCHANGED <<gvars, pvars, xvars, rvars, tpl, compiled, rendered, writer, wrun, wrote>>

NextTagged == TagCall \/ Write \/ TagLine \/ TagFile

SpecTagged == InitTagged /\ [][NextTagged]_vars

(***************************************************************************)
(* Specification SpecTemplate: Template::compile applied to every format   *)
(* string of up to MaxTemplateLen characters over TemplateChars, and the   *)
(* compiled template rendered with TemplateValues                          *)
(***************************************************************************)
MaxTemplateLen == 5

TemplateChars == {"{", "}", "a"}

\* the HashMap given to render_with_map
TemplateValues == [n \in {"a"} |-> "V"]

InitTemplate ==
    /\ ParseIdle
    /\ ExtractIdle
    /\ RunIdle
    /\ RegistryIdle
    /\ WriterIdle
    /\ TaggedIdle
    /\ TemplateIdle

\* the caller compiles a longer format string
Compile ==
    /\ Len(tpl) < MaxTemplateLen
    /\ \E c \in TemplateChars :
          /\ tpl' = tpl \o c
          /\ compiled' = compile(tpl \o c)
    /\ rendered' = <<>>
    /\ UNCHANGED <<gvars, pvars, xvars, rvars, writer, wrun, tagged, wrote, tagrun>>

\* template.render_with_map(&values)
Render ==
    /\ compiled.ok
    /\ rendered = <<>>
    /\ rendered' = <<render_with_map(compiled, TemplateValues)>>
    /\ UNCHANGED <<gvars, pvars, xvars, rvars, writer, wrun, tagged, wrote, tagrun,
                   tpl, compiled>>

NextTemplate == Compile \/ Render

SpecTemplate == InitTemplate /\ [][NextTemplate]_vars

(***************************************************************************)
(* C4: parse_ipv4_bytes                                                    *)
(***************************************************************************)
RECURSIVE SplitDots(_)
SplitDots(s) ==
    IF \A i \in 1..Len(s) : At(s, i) # "."
    THEN <<s>>
    ELSE LET d == CHOOSE i \in 1..Len(s) :
                      At(s, i) = "." /\ \A j \in 1..(i - 1) : At(s, j) # "."
         IN  <<SubSeq(s, 1, d - 1)>> \o SplitDots(SubSeq(s, d + 1, Len(s)))

RECURSIVE DecValue(_)
DecValue(g) ==
    IF g = "" THEN 0
    ELSE 10 * DecValue(SubSeq(g, 1, Len(g) - 1)) + DigitVal(At(g, Len(g)))

IsStrictOctet(g) ==
    /\ g # ""
    /\ \A i \in 1..Len(g) : IsDigit(At(g, i))
    /\ DecValue(g) <= 255
    /\ (Len(g) > 1 => At(g, 1) # "0")

IsStrictDottedQuad(s) ==
    /\ Len(s) >= 7
    /\ Len(s) <= 15
    /\ Len(SplitDots(s)) = 4
    /\ \A k \in 1..4 : IsStrictOctet(SplitDots(s)[k])

\* C4: parse_ipv4_bytes accepts a byte string if and only if its length is in
\* [7, 15] and it is exactly four dot-separated decimal octets, each non-empty,
\* at most 255 and without a leading zero when longer than one digit; the
\* address returned holds the four octet values.
C4_ParseIpv4Strict ==
    /\ presult.ok <=> IsStrictDottedQuad(pbytes)
    /\ presult.ok =>
          \A k \in 1..4 : presult.octets[k] = DecValue(SplitDots(pbytes)[k])

\* C4 witness: an accepted address with one-, two- and three-digit octets
C4_Witness ==
    /\ pbytes = "1.25.255.0"
    /\ presult.ok
    /\ presult.octets = <<1, 25, 255, 0>>

(***************************************************************************)
(* C2, C3, C5: what find_iter yields                                       *)
(***************************************************************************)
YieldedText(i) == Slice(haystack, yielded[i].start, yielded[i].end)

\* C2: the ranges yielded by find_iter are in left-to-right order and do not
\* overlap: each range ends at or before the start of the next one.
C2_FindIterOrdered ==
    \A i \in 1..(Len(yielded) - 1) : yielded[i].end <= yielded[i + 1].start

RECURSIVE SplitColons(_)
SplitColons(s) ==
    IF \A i \in 1..Len(s) : At(s, i) # ":"
    THEN <<s>>
    ELSE LET d == CHOOSE i \in 1..Len(s) :
                      At(s, i) = ":" /\ \A j \in 1..(i - 1) : At(s, j) # ":"
         IN  <<SubSeq(s, 1, d - 1)>> \o SplitColons(SubSeq(s, d + 1, Len(s)))

IsHexGroup(g) ==
    /\ Len(g) >= 1
    /\ Len(g) <= 4
    /\ \A i \in 1..Len(g) : IsHexDigit(At(g, i))

QuadOctets(q) == [k \in 1..4 |-> DecValue(SplitDots(q)[k])]

\* the colon-separated pieces of one side of an address: hex groups, the
\* last one possibly a dotted quad standing for two groups
PiecesOk(ps, quadLast) ==
    \A k \in 1..Len(ps) :
        IsHexGroup(ps[k]) \/ (quadLast /\ k = Len(ps) /\ IsStrictDottedQuad(ps[k]))

PiecesCount(ps) ==
    IF Len(ps) > 0 /\ ~IsHexGroup(ps[Len(ps)]) THEN Len(ps) + 1 ELSE Len(ps)

PiecesSegments(ps) ==
    Flatten([k \in 1..Len(ps) |->
                IF IsHexGroup(ps[k]) THEN <<HexValue(ps[k])>>
                ELSE LET o == QuadOctets(ps[k])
                     IN  <<o[1] * 256 + o[2], o[3] * 256 + o[4]>>])

\* the textual form of an IPv6 address: eight groups, or fewer with one "::"
\* standing for the missing (at least one) zero groups
StrictIpv6(s) ==
    LET dc == {i \in 1..(Len(s) - 1) : SubSeq(s, i, i + 1) = "::"}
    IN  IF dc = {}
        THEN PiecesOk(SplitColons(s), TRUE) /\ PiecesCount(SplitColons(s)) = 8
        ELSE /\ Cardinality(dc) = 1
             /\ LET i  == CHOOSE j \in dc : TRUE
                    L  == SubSeq(s, 1, i - 1)
                    R  == SubSeq(s, i + 2, Len(s))
                    lp == IF L = "" THEN <<>> ELSE SplitColons(L)
                    rp == IF R = "" THEN <<>> ELSE SplitColons(R)
                IN  /\ PiecesOk(lp, FALSE)
                    /\ PiecesOk(rp, TRUE)
                    /\ Len(lp) + PiecesCount(rp) <= 7

\* the eight 16-bit groups a strict IPv6 text denotes
Ipv6Groups(s) ==
    LET dc == {i \in 1..(Len(s) - 1) : SubSeq(s, i, i + 1) = "::"}
    IN  IF dc = {} THEN PiecesSegments(SplitColons(s))
        ELSE LET i  == CHOOSE j \in dc : TRUE
                 L  == SubSeq(s, 1, i - 1)
                 R  == SubSeq(s, i + 2, Len(s))
                 lp == IF L = "" THEN <<>> ELSE SplitColons(L)
                 rp == IF R = "" THEN <<>> ELSE SplitColons(R)
             IN  PiecesSegments(lp)
                     \o [k \in 1..(8 - Len(lp) - PiecesCount(rp)) |-> 0]
                     \o PiecesSegments(rp)

Pow2(n) == 2 ^ n

\* membership of an IPv4 address in base/len, for len of at most 16: the
\* leading len bits of the first two octets agree
InCidr4(o, base, len) ==
    LET v(x) == x[1] * 256 + x[2]
    IN  v(o) \div Pow2(16 - len) = v(base) \div Pow2(16 - len)

\* membership of an IPv6 address in a prefix within its first group
InPrefix6(g, first, len) == g[1] \div Pow2(16 - len) = first \div Pow2(16 - len)

\* the categories of C5 a strict address text belongs to, by flag
InDisabledCategory(kind, text, b) ==
    IF kind = "IPv4"
    THEN LET o == QuadOctets(text)
         IN  \/ ~b.include_private
                /\ (\/ InCidr4(o, <<10, 0, 0, 0>>, 8)
                    \/ InCidr4(o, <<172, 16, 0, 0>>, 12)
                    \/ InCidr4(o, <<192, 168, 0, 0>>, 16))
             \/ ~b.include_loopback /\ InCidr4(o, <<127, 0, 0, 0>>, 8)
             \/ ~b.include_broadcast
                /\ (\/ o = <<255, 255, 255, 255>>
                    \/ InCidr4(o, <<169, 254, 0, 0>>, 16))
    ELSE LET g == Ipv6Groups(text)
         IN  \/ ~b.include_private
                /\ (InPrefix6(g, 65152, 10) \/ InPrefix6(g, 64512, 7))
             \/ ~b.include_loopback /\ g = <<0, 0, 0, 0, 0, 0, 0, 1>>

StrictText(kind, text) ==
    IF kind = "IPv4" THEN IsStrictDottedQuad(text) ELSE StrictIpv6(text)

\* C3: every range yielded by find_iter satisfies 0 <= start < end <= length
\* of the haystack, its kind is one the extractor was built for, and its bytes
\* are a strict address text of that kind that passes the configured filters.
C3_YieldedRangeValid ==
    \A i \in 1..Len(yielded) :
        /\ 0 <= yielded[i].start
        /\ yielded[i].start < yielded[i].end
        /\ yielded[i].end <= Len(haystack)
        /\ \/ yielded[i].kind = "IPv4" /\ builder.include_ipv4
           \/ yielded[i].kind = "IPv6" /\ builder.include_ipv6
        /\ StrictText(yielded[i].kind, YieldedText(i))
        /\ ~InDisabledCategory(yielded[i].kind, YieldedText(i), builder)

\* C3 witness: a link-local IPv6 address found after a leading space
C3_Witness ==
    /\ haystack = " fe80::1"
    /\ yielded = <<[start |-> 1, end |-> 8, kind |-> "IPv6"]>>
    /\ iter = "done"

RECURSIVE Interleave(_, _, _, _, _)
\* the gap before match i, its decoration, and so on to the end of the line
Interleave(line, ys, ds, i, pos) ==
    IF i > Len(ys) \/ i > Len(ds)
    THEN Slice(line, pos, Len(line))
    ELSE Slice(line, pos, ys[i].start) \o ds[i]
             \o Interleave(line, ys, ds, i + 1, ys[i].end)

\* C1: once run() is through with a line in decorate mode, what it wrote is
\* the bytes before the first match, the decoration of the first match, the
\* bytes between consecutive matches, each following decoration, and the
\* bytes after the last match; with no match it is the line itself.
C1_GapsPreserved ==
    rstate \in {"eol", "panicked"} =>
        /\ Len(decos) = Len(yielded)
        /\ out = Interleave(haystack, yielded, decos, 1, 0)

(***************************************************************************)
(* C6, C7: the rendering of the template                                   *)
(***************************************************************************)
\* offset of the first '}' after the first byte of t, or 0
CloseAt(t) ==
    LET c == {j \in 2..Len(t) : At(t, j) = "}"}
    IN  IF c = {} THEN 0 ELSE CHOOSE j \in c : \A k \in c : j <= k

RECURSIVE SinglePass(_, _)
\* one pass over the template: each field reference gives its value, and
\* the value is not looked at again
SinglePass(t, v) ==
    IF t = "" THEN ""
    ELSE IF At(t, 1) = "{" /\ CloseAt(t) > 0
            /\ SubSeq(t, 2, CloseAt(t) - 1) \in DOMAIN v
    THEN v[SubSeq(t, 2, CloseAt(t) - 1)]
             \o SinglePass(SubSeq(t, CloseAt(t) + 1, Len(t)), v)
    ELSE At(t, 1) \o SinglePass(SubSeq(t, 2, Len(t)), v)

RECURSIVE Underscored(_)
\* s with '_' at the place of every space
Underscored(s) ==
    IF s = "" THEN ""
    ELSE (IF At(s, 1) = " " THEN "_" ELSE At(s, 1))
             \o Underscored(SubSeq(s, 2, Len(s)))

\* C6: the text the provider path renders from the user's template holds
\* every field value verbatim, a value that reads like a field reference
\* included: it is the text of one pass over the template.
C6_NoRescan ==
    last_lookup.how = "rendered" =>
        last_lookup.raw = SinglePass(args.template, ProviderValues(last_lookup.ip))

\* C7 as stated: in a decoration the provider renders, spaces are replaced
\* by '_' inside the substituted values only, and the spaces of the
\* template's literal segments stay (checked where no value was rescanned).
C7_SpacesInValuesOnly ==
    (/\ last_lookup.how = "rendered"
     /\ last_lookup.raw = SinglePass(args.template, ProviderValues(last_lookup.ip)))
    => last_lookup.result =
           SinglePass(args.template,
                      [k \in FieldKeys |-> Underscored(ProviderValues(last_lookup.ip)[k])])

\* C7, amended: in a decoration the provider renders, every space of the
\* rendered text is replaced by '_', in the literal segments of the
\* template as in the substituted values.
C7_AllSpacesReplaced ==
    last_lookup.how = "rendered" =>
        last_lookup.result = Underscored(last_lookup.raw)

C7_Witness ==
    /\ last_lookup.how = "rendered"
    /\ args.template = "{ip} in {city}"
    /\ last_lookup.ip = "1.2.3.4"
    /\ last_lookup.raw = "1.2.3.4 in Jersey City"
    /\ last_lookup.result = "1.2.3.4_in_Jersey_City"

(***************************************************************************)
(* C8, C9: only_routable                                                   *)
(***************************************************************************)
\* the addresses of the lines for which the ASN database has a number
AddressesWithAsn == {"1.2.3.4"}

\* C8: with only_routable, a match without an ASN is written as its own
\* bytes, and the other matches of the line are written as a rendering of
\* the template.
C8_OnlyRoutablePassThrough ==
    args.only_routable =>
        \A i \in 1..Len(decos) :
            IF YieldedText(i) \in AddressesWithAsn
            THEN /\ decos[i] # YieldedText(i)
                 /\ \E o \in KeyOrders :
                        decos[i] = MaxMindLookup(YieldedText(i), args.template, o)
            ELSE decos[i] = YieldedText(i)

C8_Witness ==
    /\ args.only_routable
    /\ rstate = "eol"
    /\ haystack = "10.0.0.1 1.2.3.4 "
    /\ decos = <<"10.0.0.1", "1.2.3.4_in_Jersey_City">>
    /\ out = "10.0.0.1 1.2.3.4_in_Jersey_City "

\* C9 as stated: with only_routable, a literal that is passed through
\* because it has no ASN is in no lookup cache.
C9_PassThroughNotCached ==
    args.only_routable =>
        \A k \in DOMAIN cache \cup DOMAIN ip_cache : k \in AddressesWithAsn

\* C9, amended: with only_routable, a literal that is passed through
\* because it has no ASN is put into IP_CACHE, mapped to itself, and into
\* the cache of run() as well unless that already holds CacheLimit entries.
C9_PassThroughCached ==
    last_lookup.how = "passthrough" =>
        /\ last_lookup.result = last_lookup.ip
        /\ last_lookup.ip \in DOMAIN ip_cache
        /\ ip_cache[last_lookup.ip] = last_lookup.ip
        /\ IF last_lookup.inserted
           THEN /\ last_lookup.ip \in DOMAIN cache
                /\ cache[last_lookup.ip] = last_lookup.ip
           ELSE /\ last_lookup.ip \notin DOMAIN cache
                /\ CacheLen(cache, cache_other) >= CacheLimit

C9_Witness ==
    /\ args.only_routable
    /\ last_lookup.how = "passthrough"
    /\ last_lookup.ip = "10.0.0.1"
    /\ last_lookup.inserted
    /\ "10.0.0.1" \in DOMAIN cache
    /\ cache["10.0.0.1"] = "10.0.0.1"

(***************************************************************************)
(* C10: the size of the lookup caches                                      *)
(***************************************************************************)
\* C10: the lookup caches hold at most 100,000 entries each; once the cache
\* of run() is full, a literal that is not in it is still looked up and its
\* result written, and it is not inserted.
C10_CacheBounded ==
    /\ CacheLen(cache, cache_other) <= CacheLimit
    /\ CacheLen(ip_cache, ip_cache_other) <= CacheLimit
    /\ (last_lookup.how \in {"ip_cache", "passthrough", "rendered"}
        /\ ~last_lookup.inserted)
       => /\ CacheLen(cache, cache_other) = CacheLimit
          /\ last_lookup.ip \notin DOMAIN cache
          /\ decos # <<>>
          /\ decos[Len(decos)] = last_lookup.result

(***************************************************************************)
(* C11: one literal, one decoration                                        *)
(***************************************************************************)
\* C11: with the arguments fixed, every occurrence of a literal in the
\* input is written with the same decoration, whether it came from the
\* cache, from a fresh lookup, or from a lookup made with the cache full.
C11_SameLiteralSameDecoration ==
    \A k \in DOMAIN emitted : Cardinality(emitted[k]) = 1

C11_Witness ==
    /\ args.template = "<{ip}|AS{asnnum}_{asnorg}|{city}>"
    /\ haystack = "1.2.3.4 1.2.3.4 "
    /\ Len(decos) = 2
    /\ decos[1] = decos[2]
    /\ CacheLen(cache, cache_other) = CacheLimit
    /\ "1.2.3.4" \notin DOMAIN cache
    /\ last_lookup.how = "ip_cache"
    /\ emitted["1.2.3.4"] = {decos[1]}

(***************************************************************************)
(* C12, C13: the right boundary of a match                                 *)
(***************************************************************************)
\* the byte after offset e is a digit, or a '.' with a digit after it
DigitFollows(h, e) ==
    /\ e < Len(h)
    /\ \/ At(h, e + 1) \in DigitSet
       \/ /\ At(h, e + 1) = "."
          /\ e + 1 < Len(h)
          /\ At(h, e + 2) \in DigitSet

HasKind(kind) == \E i \in 1..Len(extractor.validators) : extractor.validators[i].kind = kind

\* C12: an IPv4 candidate that ends before the end of the haystack is
\* refused at its right boundary exactly when the next byte is a digit, or
\* a '.' followed by a digit: whatever is yielded as IPv4 has no such
\* continuation, and 1.2.3.4 at the head of the haystack is yielded unless
\* such a continuation follows it.
C12_Ipv4RightBoundary ==
    /\ \A i \in 1..Len(yielded) :
          yielded[i].kind = "IPv4" => ~DigitFollows(haystack, yielded[i].end)
    /\ (/\ iter = "done"
        /\ HasKind("IPv4")
        /\ Len(haystack) >= 7
        /\ Slice(haystack, 0, 7) = "1.2.3.4")
       => ((\E i \in 1..Len(yielded) :
               yielded[i] = [start |-> 0, end |-> 7, kind |-> "IPv4"])
           <=> ~DigitFollows(haystack, 7))

C12_Witness ==
    /\ iter = "done"
    /\ haystack = "1.2.3.4.abc"
    /\ yielded = <<[start |-> 0, end |-> 7, kind |-> "IPv4"]>>

\* C13: a zone identifier is never part of a match: no yielded range holds
\* a '%', and with IPv6 selected the haystack fe80::1%eth0 (or fe80::1
\* followed by '%' and anything else) gives the one match fe80::1, the
\* bytes from the '%' on staying outside every match.
C13_ZoneIdNotMatched ==
    /\ \A i \in 1..Len(yielded) :
          \A p \in (yielded[i].start + 1)..yielded[i].end : At(haystack, p) # "%"
    /\ (/\ iter = "done"
        /\ HasKind("IPv6")
        /\ Len(haystack) >= 8
        /\ Slice(haystack, 0, 8) = "fe80::1%")
       => yielded = <<[start |-> 0, end |-> 7, kind |-> "IPv6"]>>

C13_Witness ==
    /\ iter = "done"
    /\ HasKind("IPv6")
    /\ haystack = "fe80::1%eth0"
    /\ yielded = <<[start |-> 0, end |-> 7, kind |-> "IPv6"]>>

(***************************************************************************)
(* C14: build() and the kinds selected                                     *)
(***************************************************************************)
\* C14: build() fails exactly when neither IPv4 nor IPv6 is selected; an
\* extractor that was built yields ranges of the selected kinds only.
C14_BuildNeedsAKind ==
    /\ [](/\ extractor.ok => built = "ok"
          /\ \A i \in 1..Len(yielded) :
                /\ yielded[i].kind = "IPv4" =>
                      builder.include_ipv4 /\ IsStrictDottedQuad(YieldedText(i))
                /\ yielded[i].kind = "IPv6" =>
                      builder.include_ipv6 /\ StrictIpv6(YieldedText(i)))
    /\ [][built' # built =>
             /\ built' = "err" <=> (~builder.include_ipv4 /\ ~builder.include_ipv6)
             /\ built' = "ok" <=> extractor'.ok]_vars

C14_Witness ==
    /\ built = "err"
    /\ ~builder.include_ipv4
    /\ ~builder.include_ipv6
    /\ extractor = NoExtractor

(***************************************************************************)
(* C15, C16: errors of a lookup                                            *)
(***************************************************************************)
\* C15: a provider reports an error only from initialize: whatever the
\* text and whatever the state of the provider, lookup and has_asn return
\* normally.
C15_LookupTotal ==
    reply.op \in {"lookup", "has_asn"} => reply.ok

\* C16: when the lookup of the provider failed for a match, what
\* GeoIPSed::lookup gives run() to write is the matched literal, unchanged.
C16_FailedLookupKeepsLiteral ==
    (reply.op = "GeoIPSed::lookup"
     /\ reply.how \in {"unparsed", "legacy", "legacy_passthrough"})
    => reply.text = reply.arg

(***************************************************************************)
(* C17, C18: initialize and the life of a provider                         *)
(***************************************************************************)
\* C17: initialize succeeds exactly when the call opened at least one
\* usable database of the given directory, and after a failed initialize
\* the provider is not marked initialized.
C17_InitializeIffOpened ==
    reply.op = "initialize" =>
        /\ reply.ok <=> reply.opened # {}
        /\ ~reply.ok => ~ActiveProvider(registry).initialized

\* C18: initialized is never taken back, and an initialized provider is
\* immutable: no call changes the readers or the initialized flag of a
\* provider that is initialized (register putting a new provider under its
\* name aside).
C18_InitializedImmutable ==
    [][\A n \in DOMAIN registry.providers :
          (/\ registry.providers[n].initialized
           /\ ~(reply'.op = "register" /\ reply'.arg = n))
          => /\ n \in DOMAIN registry'.providers
             /\ registry'.providers[n] = registry.providers[n]]_vars

(***************************************************************************)
(* C19: the active provider                                                *)
(***************************************************************************)
\* C19: set_active_provider succeeds exactly when the name is registered,
\* makes that name the active one when it succeeds and leaves the registry
\* as it was when it fails; at all times the registry has an active
\* provider and it is a registered one, so available_fields has a provider
\* to ask.
C19_ActiveIsRegistered ==
    /\ [](/\ Len(registry.active_provider) = 1
          /\ registry.active_provider[1] \in DOMAIN registry.providers
          /\ reply.op = "set_active_provider" =>
                /\ reply.ok <=> reply.arg \in DOMAIN registry.providers
                /\ reply.ok => registry.active_provider = <<reply.arg>>
          /\ reply.op = "available_fields" => reply.ok)
    /\ [][(reply'.op = "set_active_provider" /\ ~reply'.ok) => registry' = registry]_vars

C19_Witness ==
    /\ reply.op = "set_active_provider"
    /\ reply.ok
    /\ reply.arg = "custom"
    /\ registry.active_provider = <<"custom">>

(***************************************************************************)
(* C20: errors of the output                                               *)
(***************************************************************************)
\* the chain of causes holds an io::Error of kind BrokenPipe
HoldsBrokenPipe(err) ==
    \E i \in DOMAIN err : err[i] = [io |-> TRUE, kind |-> "BrokenPipe"]

C21_FlushedOnExit ==
    (wrun.pc = "exited" /\ ~writer.broken) =>
        /\ writer.buf = 0
        /\ writer.sink = wrun.accepted

\* C21 witness: a read error ends the run while bytes are buffered, and
\* they reach the standard output
C21_Witness ==
    /\ wrun.pc = "exited"
    /\ wrun.result = "err"
    /\ wrun.flushed = "drop"
    /\ ~writer.broken
    /\ wrun.accepted > 0
    /\ writer.sink = wrun.accepted

(***************************************************************************)
(* C22, C23, C29: tagged documents                                         *)
(***************************************************************************)
\* consecutive ranged tags are in order and do not overlap
SortedDisjoint(tags) ==
    \A i \in 1..(Len(tags) - 1) :
        (tags[i].range # <<>> /\ tags[i + 1].range # <<>>)
            => tags[i].range[1].end <= tags[i + 1].range[1].start

\* C22: in every tagged document, after any sequence of tag() calls and in
\* every document emitted in tag and tag-files modes, the tags are sorted by
\* range.start and their ranges do not overlap.
C22_TagsSortedDisjoint ==
    /\ SortedDisjoint(tagged.tags)
    /\ \A i \in 1..Len(tagrun.docs) : SortedDisjoint(tagrun.docs[i].tags)

\* C22 reached through tag mode: the document of OverlapLine holds two
\* tags that overlap
C22_TagModeOverlap ==
    /\ tagrun.mode = "tag"
    /\ \E i \in 1..Len(tagrun.docs) :
          /\ tagrun.docs[i].text = OverlapLine
          /\ ~SortedDisjoint(tagrun.docs[i].tags)

HasMatch(content) == FindNext(TagExtractor, content, 0).some

\* every tag of the document has a range, and its value is the bytes of
\* that range of the whole text
WholeTextOffsets(doc) ==
    /\ doc.text_data = <<doc.text>>
    /\ \A k \in 1..Len(doc.tags) :
          /\ doc.tags[k].range # <<>>
          /\ doc.tags[k].range[1].end <= Len(doc.text)
          /\ doc.tags[k].ip = Slice(doc.text, doc.tags[k].range[1].start,
                                    doc.tags[k].range[1].end)

RangedDisjoint(text, tags) ==
    /\ \A i \in 1..Len(tags) :
          /\ tags[i].range # <<>>
          /\ tags[i].range[1].start <= tags[i].range[1].end
          /\ tags[i].range[1].end <= Len(text)
    /\ \A i, j \in 1..Len(tags) :
          i # j => \/ tags[i].range[1].end <= tags[j].range[1].start
                   \/ tags[j].range[1].end <= tags[i].range[1].start

\* the text from the offset pos on, the range of each tag replaced by its
\* decoration (by its own bytes when it has none)
RECURSIVE Replaced(_, _, _)
Replaced(text, tags, pos) ==
    IF pos >= Len(text) THEN ""
    ELSE IF \E i \in 1..Len(tags) : tags[i].range[1].start = pos
    THEN LET t == tags[CHOOSE i \in 1..Len(tags) : tags[i].range[1].start = pos]
         IN  (IF t.decorated # <<>> THEN t.decorated[1]
              ELSE Slice(text, t.range[1].start, t.range[1].end))
             \o Replaced(text, tags, t.range[1].end)
    ELSE At(text, pos + 1) \o Replaced(text, tags, pos + 1)

\* C29: Tagged::write produces the same bytes for a set of non-overlapping
\* ranged tags whatever the order of the tag() calls: each decoration
\* replaces exactly its own range and the other bytes are copied unchanged,
\* for one, two or more tags.
C29_WriteOrderIndependent ==
    (wrote.op = "write" /\ RangedDisjoint(tagged.text, tagged.tags)) =>
        /\ wrote.ok
        /\ wrote.bytes = Replaced(tagged.text, tagged.tags, 0)

\* the same for tags added in the order of their ranges
C29_WriteInOrder ==
    (wrote.op = "write" /\ RangedDisjoint(tagged.text, tagged.tags)
        /\ DebugSorted(tagged.tags)) =>
        /\ wrote.ok
        /\ wrote.bytes = Replaced(tagged.text, tagged.tags, 0)

(***************************************************************************)
(* C24, C25: Template::compile                                             *)
(***************************************************************************)
\* the length of the run of the character ch that ends at the position i
RECURSIVE RunBack(_, _, _)
RunBack(t, i, ch) ==
    IF i >= 1 /\ At(t, i) = ch THEN 1 + RunBack(t, i - 1, ch) ELSE 0

\* the doubled characters of t: each run of ch is read in pairs from its left
Pairs(t, ch) ==
    Cardinality({i \in 1..Len(t) : At(t, i) = ch /\ RunBack(t, i, ch) % 2 = 0})

\* a '{' at the position i that is not part of a '{{'
SingleOpen(t, i) ==
    /\ At(t, i) = "{"
    /\ RunBack(t, i, "{") % 2 = 1
    /\ (i < Len(t) => At(t, i + 1) # "{")

\* the '{' that are not part of a '{{' and have no later '}'
Unclosed(t) ==
    Cardinality({i \in 1..Len(t) :
                    SingleOpen(t, i) /\ \A j \in (i + 1)..Len(t) : At(t, j) # "}"})

CountOf(t, ch) == Cardinality({i \in 1..Len(t) : At(t, i) = ch})

\* C24: compile turns every '{{' into a literal '{' and every '}}' into a
\* literal '}', and treats a '{' with no later '}' as a literal '{': the
\* rendering reproduces those characters and no field is created for them.
C24_EveryEscapeLiteral ==
    rendered # <<>> =>
        /\ CountOf(rendered[1], "{") = Pairs(tpl, "{") + Unclosed(tpl)
        /\ CountOf(rendered[1], "}") >= Pairs(tpl, "}")
        /\ \A k \in 1..Len(fields(compiled)) :
              \A i \in 1..(Len(fields(compiled)[k]) - 1) :
                  SubSeq(fields(compiled)[k], i, i + 1) # "{{"

\* the format string read from the offset i on: '{{' is '{', a '{' with a
\* later '}' is a field reference up to the first '}', a '{' without one is
\* '{', '}}' is '}', any other character is itself; the rendering and the
\* field names
RECURSIVE ReadFrom(_, _, _)
ReadFrom(t, i, values) ==
    IF i >= Len(t) THEN [text |-> "", names |-> <<>>]
    ELSE IF At(t, i + 1) = "{" /\ i + 1 < Len(t) /\ At(t, i + 2) = "{"
    THEN [ReadFrom(t, i + 2, values) EXCEPT !.text = "{" \o @]
    ELSE IF At(t, i + 1) = "{" /\ FindClose(t, i + 1) >= 0
    THEN LET name == Slice(t, i + 1, i + 1 + FindClose(t, i + 1))
             rest == ReadFrom(t, i + 1 + FindClose(t, i + 1) + 1, values)
         IN  [text |-> (IF name \in DOMAIN values THEN values[name] ELSE "")
                       \o rest.text,
              names |-> <<name>> \o rest.names]
    ELSE IF At(t, i + 1) = "}" /\ i + 1 < Len(t) /\ At(t, i + 2) = "}"
    THEN [ReadFrom(t, i + 2, values) EXCEPT !.text = "}" \o @]
    ELSE [ReadFrom(t, i + 1, values) EXCEPT !.text = At(t, i + 1) \o @]

\* C24 as amended: outside a field reference compile turns '{{' into a
\* literal '{' and '}}' into a literal '}', and treats a '{' with no later
\* '}' as a literal '{'; a '{' that is not followed by '{' and has a later
\* '}' opens a field reference that runs to the first '}', whatever lies
\* between.  The rendering and the fields are those of this reading.
C24_EscapesOutsideFields ==
    rendered # <<>> =>
        /\ rendered[1] = ReadFrom(tpl, 0, TemplateValues).text
        /\ fields(compiled) = ReadFrom(tpl, 0, TemplateValues).names

\* C24 witness: '{{', '}}' and an unclosed '{' rendered, no field created
C24_Witness ==
    /\ tpl = "{{}}{"
    /\ rendered = <<"{}{">>
    /\ fields(compiled) = <<>>

\* C25: compile returns an error if and only if the format string contains
\* a field reference with an empty name: a '{' that is not part of '{{',
\* immediately followed by '}'.
C25_ErrorIffEmptyBraces ==
    compiled.ok <=>
        ~\E i \in 1..(Len(tpl) - 1) : SingleOpen(tpl, i) /\ At(tpl, i + 1) = "}"

\* C25 as amended: compile returns an error if and only if a field
\* reference of the format string has an empty name, a field reference
\* being opened by a '{' that is not followed by '{', lies outside an
\* earlier field reference and has a later '}', and running to the first
\* '}' after it.
C25_ErrorIffEmptyFieldName ==
    compiled.ok <=>
        \A k \in 1..Len(ReadFrom(tpl, 0, TemplateValues).names) :
            ReadFrom(tpl, 0, TemplateValues).names[k] # ""

\* C25 witness: a field reference, then an empty one
C25_Witness ==
    /\ tpl = "{a}{}"
    /\ ~compiled.ok

(***************************************************************************)
(* C26: the default configuration of ExtractorBuilder                      *)
(***************************************************************************)
\* the defaults the documentation of the struct ExtractorBuilder states:
\* IPv4 and IPv6, without private, loopback and broadcast addresses
DocumentedDefault ==
    [include_ipv4 |-> TRUE, include_ipv6 |-> TRUE, include_private |-> FALSE,
     include_loopback |-> FALSE, include_broadcast |-> FALSE]

\* C26: as documented on ExtractorBuilder, a builder created with new() and
\* built without further configuration extracts both IPv4 and IPv6 addresses
\* but excludes private, loopback and broadcast addresses.
C26_DefaultExcludesSpecial ==
    (builder = NewBuilder /\ extractor.ok) =>
        /\ HasKind("IPv4")
        /\ HasKind("IPv6")
        /\ \A i \in 1..Len(yielded) :
              ~InDisabledCategory(yielded[i].kind, YieldedText(i), DocumentedDefault)

(***************************************************************************)
(* C27, C28: the backward scan and the search position of find_iter        *)
(***************************************************************************)
\* the run of address characters around the byte at the offset p: the
\* offset of its first byte, and the offset after its last byte
RunLo(h, p) ==
    CHOOSE s \in 0..p :
        /\ \A k \in s..p : is_ip_char(At(h, k + 1))
        /\ s = 0 \/ ~is_ip_char(At(h, s))

RunHi(h, p) ==
    CHOOSE e \in (p + 1)..Len(h) :
        /\ \A k \in p..(e - 1) : is_ip_char(At(h, k + 1))
        /\ e = Len(h) \/ ~is_ip_char(At(h, e + 1))

\* the largest s in [max(0, end - 40), end) with s = 0 or a byte before it
\* that is no address character; the cap when there is none
BoundaryOrCap(h, end) ==
    LET cap == IF end >= 40 THEN end - 40 ELSE 0
        c == {s \in cap..(end - 1) : s = 0 \/ ~is_ip_char(At(h, s))}
    IN  IF c = {} THEN cap ELSE CHOOSE s \in c : \A j \in c : j <= s

\* C27: the start used for a candidate is the largest index s in
\* [max(0, end - 40), end) such that s = 0 or haystack[s - 1] is no address
\* character, and the cap when there is none; a run of address characters
\* longer than 40 bytes therefore yields no match that begins inside the run.
C27_StartWithinCap ==
    \A i \in 1..Len(yielded) :
        /\ yielded[i].start = BoundaryOrCap(haystack, yielded[i].end)
        /\ ~(/\ RunHi(haystack, yielded[i].start) - RunLo(haystack, yielded[i].start) > 40
             /\ yielded[i].start > RunLo(haystack, yielded[i].start))

\* the ends of the candidates the automaton reports on h, accepted or
\* rejected, m being the result of the search from the current position
RECURSIVE CandidateEnds(_, _, _)
CandidateEnds(dfa, h, m) ==
    IF ~m.found THEN <<>>
    ELSE <<m.offset>> \o CandidateEnds(dfa, h, try_search_fwd(dfa, h, m.offset))

Increasing(ends) == \A i \in 1..(Len(ends) - 1) : ends[i] < ends[i + 1]

\* C28: after every candidate, accepted or rejected, the next search position
\* is that candidate's end: the ends of the candidates increase strictly and
\* lie within the haystack, each next() that returns a range leaves the
\* search position at the end of that range and beyond where it was, no
\* range is returned twice, and the iterator comes to its end.
C28_SearchAdvances ==
    /\ [](/\ input_start <= Len(haystack)
          /\ Increasing([i \in 1..Len(yielded) |-> yielded[i].end])
          /\ extractor.ok =>
                Increasing(CandidateEnds(extractor.dfa, haystack,
                                         try_search_fwd(extractor.dfa, haystack, 0))))
    /\ [][(iter = "active" /\ Len(yielded') = Len(yielded) + 1) =>
             /\ input_start' = yielded'[Len(yielded')].end
             /\ input_start' > input_start]_vars
    /\ [](iter = "active" => <>(iter = "done"))

\* C28 witness: the iterator has come to its end on a haystack where the
\* first candidate was rejected and a later one was returned
C28_Witness ==
    /\ iter = "done"
    /\ extractor.ok
    /\ Len(yielded) >= 1
    /\ input_start = yielded[Len(yielded)].end
    /\ yielded[1].end >
          try_search_fwd(extractor.dfa, haystack, 0).offset

(***************************************************************************)
(* C30: a failed set_active_provider                                       *)
(***************************************************************************)
\* C30: a set_active_provider call that fails (the name is not registered)
\* leaves the registry unchanged: the provider that was active stays
\* active and get_active_provider returns the same provider, the same
\* names are registered, and every provider is initialized or not as it
\* was before the call.
C30_FailedSetActiveFrame ==
    [][(reply'.op = "set_active_provider" /\ ~reply'.ok) =>
          /\ reply'.arg \notin DOMAIN registry.providers
          /\ registry'.active_provider = registry.active_provider
          /\ DOMAIN registry'.providers = DOMAIN registry.providers
          /\ \A n \in DOMAIN registry.providers :
                registry'.providers[n].initialized = registry.providers[n].initialized
          /\ HasActive(registry) =>
                /\ HasActive(registry')
                /\ ActiveProvider(registry') = ActiveProvider(registry)]_vars

\* C30 witness: set_active_provider("geoip") has failed on a registry
\* whose active provider is "custom", with "maxmind" initialized
C30_Witness ==
    /\ reply.op = "set_active_provider"
    /\ ~reply.ok
    /\ reply.arg = "geoip"
    /\ registry.active_provider = <<"custom">>
    /\ registry.providers["maxmind"].initialized
    /\ ~registry.providers["ipinfo"].initialized

=============================================================================
